---- MODULE Spec2Model ----
(***************************************************************************)
(* Model of the Linear/GitHub cross-reference checker:                     *)
(*   - the secondary resolver (GitHubAPI / GitHubAPIRest.get_issue_details)*)
(*   - the batch run of query_all_issues.main: token check, team lookup,   *)
(*     cursor pagination, link extraction, thread-pool dispatch,           *)
(*     collection, sorting, filtering and summary.                         *)
(*   - the two link extractors (extract_first_attachment_github_link and   *)
(*     extract_all_github_links) applied to one record.                    *)
(*   - the sort of phase 3 applied to one table, concurrent calls of the    *)
(*     resolver, and the collecting loop over a large batch.               *)
(*   - the thread pool with more tasks than threads, the pagination loop   *)
(*     over longer teams, and the token warning of GitHubAPIRest.          *)
(***************************************************************************)
EXTENDS Integers, Sequences, FiniteSets, TLC

VARIABLES
  \* ---- one call of get_issue_details (specification SpecResolver) ----
  r_variant,      \* which class serves the call: "cli" (GitHubAPI) or "rest" (GitHubAPIRest)
  r_max,          \* the max_retries argument
  r_attempt,      \* the loop variable `attempt` of the next iteration
  r_pc,           \* "loop" | "returned" | "raised"
  r_ret,          \* the returned pair [details, outcome]
  r_sleeps,       \* the time.sleep() arguments, in order
  r_resps,        \* the transport responses observed, in order
  \* ---- one run of query_all_issues.main (specification Spec) ----
  pc,             \* position of the main thread
  tokens,         \* [linear_token, github_token]: TRUE when the token is set
  args,           \* [stop_after, show_all]
  remote,         \* the primary tracker's data: [team_exists, issues]
  all_issues, cursor, fetches,
  linear_calls,   \* calls made to the primary tracker: [lookup, page]
  github_tasks, issues_with_gh_links,
  max_workers, futures,
  table_rows, error_reports, processed_count, rate_limit_hits,
  progress,       \* the progress lines printed, in order
  printed,        \* what the run has shown: [completed, reports, rows, summary]
  exit_code,
  \* ---- one record given to the link extractors (specification SpecExtract) ----
  e_pc,           \* "ready" | "done"
  e_record,       \* the issue_data dict
  e_first,        \* outcome of extract_first_attachment_github_link
  e_all,          \* outcome of extract_all_github_links
  \* ---- one table given to the sort of phase 3 (specification SpecSort) ----
  s_pc,           \* "ready" | "done"
  s_rows,         \* table_rows before the sort
  s_out,          \* table_rows after it, or the exception of the sort
  \* ---- concurrent calls of GitHubAPI.get_issue_details (specification SpecCalls) ----
  calls,          \* per call: [st, attempt, resps, sleeps, ret]
  \* ---- the collecting loop over a large batch (specification SpecProgress) ----
  p_outcomes,     \* the status of each future, in the order as_completed yields them
  p_finished,     \* how many of the futures have finished
  p_count,        \* processed_count
  p_valid,        \* len(table_rows)
  p_hits,         \* rate_limit_hits
  p_log,          \* the progress lines printed, in order
  \* ---- the thread pool of phase 2 over a large batch (specification SpecPool) ----
  q_max_workers,  \* max_workers of the ThreadPoolExecutor
  q_total,        \* len(github_tasks)
  q_futures,      \* per submitted task: [st, calls]
  \* ---- one GitHubAPIRest object used by several threads (specification SpecWarn) ----
  w_token,        \* TRUE when the object was built with a token
  w_shown,        \* self._token_warning_shown
  w_printed,      \* how many times the warning has been printed
  w_threads       \* per call of get_issue_details: where it stands

resolver_vars == <<r_variant, r_max, r_attempt, r_pc, r_ret, r_sleeps, r_resps>>
main_vars == <<pc, tokens, args, remote, all_issues, cursor, fetches, linear_calls,
               github_tasks, issues_with_gh_links, max_workers, futures,
               table_rows, error_reports, processed_count, rate_limit_hits,
               progress, printed, exit_code>>
extract_vars == <<e_pc, e_record, e_first, e_all>>
sort_vars == <<s_pc, s_rows, s_out>>
calls_vars == <<calls>>
progress_vars == <<p_outcomes, p_finished, p_count, p_valid, p_hits, p_log>>
pool_vars == <<q_max_workers, q_total, q_futures>>
warn_vars == <<w_token, w_shown, w_printed, w_threads>>
vars == <<resolver_vars, main_vars, extract_vars, sort_vars, calls_vars, progress_vars, pool_vars, warn_vars>>

-----------------------------------------------------------------------------
(* Bounds of the model *)

MaxRetriesBound == 3
MaxIssues == 3
\* page_size of get_all_team_issues (200 in the program), scaled to the model.
PageSize == 2
\* The largest --stop-after value drawn.
MaxStopAfter == 2
\* The most issues of a team that carry a GitHub link.
MaxLinked == 2
\* The most attachments of a record given to the extractors.
MaxAttachments == 2
\* The most rows of a table given to the sort.
MaxRows == 3
\* The number of concurrent calls of the resolver.
MaxCalls == 2
\* The most tasks of a large batch.
MaxBatch == 101
\* The most tasks given to the thread pool at once.
MaxPoolTasks == 11
\* The most issues of a team, and the largest --stop-after, when only the
\* pagination is run.
MaxPaged == 5
\* The number of threads that call one GitHubAPIRest object.
MaxWarnCalls == 4

(* Program constants *)

DefaultMaxRetries == 2
OtherErrorDelay == 2
CliBackoffBase == 10
RestBackoffBase == 5
WorkersWithToken == 10
WorkersWithoutToken == 5
ProgressEvery == 50

None == "None"

-----------------------------------------------------------------------------
(* The secondary tracker's transport, as one attempt sees it.              *)
(*   ok         gh exits 0 with JSON of an issue / HTTP 200 with a body    *)
(*   bad_json   gh exits 0 with unparsable stdout / a body that is no JSON *)
(*   not_found  stderr has "not found" or "could not resolve" / HTTP 404   *)
(*   rate_limit stderr has "rate limit" or exit code 22 / HTTP 403         *)
(*   other      any other non-zero exit / any other HTTP error status      *)
(*   timeout    subprocess.TimeoutExpired / requests.Timeout               *)
(*   exception  any other exception (gh missing: FileNotFoundError; a JSON *)
(*              body that is no object: AttributeError)                    *)

Variants == {"cli", "rest"}

GhStates == {"OPEN", "CLOSED", "open", "closed"}

\* The `number` field of the payload: an issue number, or 0 for a payload
\* whose number is missing, null or 0 (all falsy in Python).
GhNumbers == {0, 5}

FailureKinds == {"bad_json", "not_found", "rate_limit", "other", "timeout", "exception"}

Responses ==
  [kind : {"ok"}, number : GhNumbers, state : GhStates]
    \cup [kind : FailureKinds, number : {0}, state : {""}]

\* str.lower() on the status labels the program meets.
Lower(s) ==
  CASE s = "OPEN" -> "open"
    [] s = "CLOSED" -> "closed"
    [] s = "Done" -> "done"
    [] s = "Todo" -> "todo"
    [] s = "Backlog" -> "backlog"
    [] s = "In Progress" -> "in progress"
    [] OTHER -> s

\* The state the variant stores in the details: the CLI class lower-cases
\* gh's OPEN/CLOSED, the REST class passes the field through.
DetailsState(variant, resp) ==
  IF variant = "cli" THEN Lower(resp.state) ELSE resp.state

\* The details dict of a success: `number` is 0 when data.get("number") is
\* None or 0 (falsy either way).
Details(variant, resp) ==
  [present |-> TRUE, number |-> resp.number, state |-> DetailsState(variant, resp)]

\* The `None` returned in place of the details.
NoDetails == [present |-> FALSE, number |-> 0, state |-> ""]

Return(details, outcome) ==
  [act |-> "return", details |-> details, outcome |-> outcome, wait |-> 0]

Retry(wait) ==
  [act |-> "retry", details |-> NoDetails, outcome |-> None, wait |-> wait]

Raise ==
  [act |-> "raise", details |-> NoDetails, outcome |-> None, wait |-> 0]

\* Mutant: the call gives up at the first failure.
GiveUpAtOnce(attempt, max_retries, wait, outcome) == Return(NoDetails, outcome)

\* `if attempt < max_retries - 1: time.sleep(w); continue / else: return None, outcome`
RetryOrGiveUp(attempt, max_retries, wait, outcome) ==
  IF attempt < max_retries - 1 THEN Retry(wait) ELSE Return(NoDetails, outcome)

\* The wait of the mutant: the same wait after every rate-limit response.
RateLimitWaitFlat(variant, attempt) ==
  IF variant = "cli" THEN CliBackoffBase ELSE RestBackoffBase

\* The wait after a rate-limit response: (attempt + 1) * base.
RateLimitWait(variant, attempt) ==
  (attempt + 1) * (IF variant = "cli" THEN CliBackoffBase ELSE RestBackoffBase)

\* The exceptions GitHubAPIRest catches are requests.RequestException only
\* (HTTP error statuses via raise_for_status, timeouts, undecodable bodies);
\* GitHubAPI catches TimeoutExpired and then every Exception.
Caught(variant, kind) ==
  IF variant = "cli" THEN TRUE ELSE kind # "exception"

\* Mutant: a not-found response is retried like any other error.
AttemptStepRetriesNotFound(variant, max_retries, attempt, resp) ==
  CASE resp.kind = "ok" -> Return(Details(variant, resp), "success")
    [] resp.kind = "rate_limit" ->
         RetryOrGiveUp(attempt, max_retries, RateLimitWait(variant, attempt), "rate_limited")
    [] OTHER ->
         IF Caught(variant, resp.kind)
           THEN RetryOrGiveUp(attempt, max_retries, OtherErrorDelay, "error")
           ELSE Raise

\* Mutant: a payload without a number is returned as (None, 'success').
AttemptStepDropsDetails(variant, max_retries, attempt, resp) ==
  CASE resp.kind = "ok" ->
         Return(IF resp.number = 0 THEN NoDetails ELSE Details(variant, resp), "success")
    [] resp.kind = "not_found" -> Return(NoDetails, "not_found")
    [] resp.kind = "rate_limit" ->
         RetryOrGiveUp(attempt, max_retries, RateLimitWait(variant, attempt), "rate_limited")
    [] OTHER ->
         IF Caught(variant, resp.kind)
           THEN RetryOrGiveUp(attempt, max_retries, OtherErrorDelay, "error")
           ELSE Raise

\* One iteration of the `for attempt in range(max_retries)` loop.
AttemptStep(variant, max_retries, attempt, resp) ==
  CASE resp.kind = "ok" -> Return(Details(variant, resp), "success")
    [] resp.kind = "not_found" -> Return(NoDetails, "not_found")
    [] resp.kind = "rate_limit" ->
         RetryOrGiveUp(attempt, max_retries, RateLimitWait(variant, attempt), "rate_limited")
    [] OTHER ->
         IF Caught(variant, resp.kind)
           THEN RetryOrGiveUp(attempt, max_retries, OtherErrorDelay, "error")
           ELSE Raise

\* The statement after the loop: `return None, 'error'`.
LoopExhausted == Return(NoDetails, "error")

\* Mutant: `continue` does not advance the loop variable.
StuckAttempt(attempt) == attempt

\* `continue` in `for attempt in range(max_retries)`: the next loop index.
NextAttempt(attempt) == attempt + 1

-----------------------------------------------------------------------------
(* Specification SpecResolver: one call of get_issue_details.              *)

MainIdle ==
  /\ pc = "idle"
  /\ tokens = [linear_token |-> FALSE, github_token |-> FALSE]
  /\ args = [stop_after |-> 0, show_all |-> FALSE]
  /\ remote = [team_exists |-> FALSE, issues |-> <<>>]
  /\ all_issues = <<>>
  /\ cursor = 0
  /\ fetches = 0
  /\ linear_calls = [lookup |-> 0, page |-> 0]
  /\ github_tasks = <<>>
  /\ issues_with_gh_links = 0
  /\ max_workers = 0
  /\ futures = <<>>
  /\ table_rows = <<>>
  /\ error_reports = <<>>
  /\ processed_count = 0
  /\ rate_limit_hits = 0
  /\ progress = <<>>
  /\ printed = [completed |-> FALSE, reports |-> <<>>, rows |-> <<>>, summary |-> FALSE,
                total |-> 0, linked |-> 0, valid |-> 0]
  /\ exit_code = -1

\* No record is with the extractors.
ExtractIdle ==
  /\ e_pc = "idle"
  /\ e_record = [title |-> <<>>, description |-> [null |-> FALSE, text |-> <<>>],
                 attachments |-> [shape |-> "nodes", nodes |-> <<>>]]
  /\ e_first = [raised |-> FALSE, links |-> <<>>]
  /\ e_all = [raised |-> FALSE, links |-> <<>>]

\* No table is with the sort.
SortIdle ==
  /\ s_pc = "idle"
  /\ s_rows = <<>>
  /\ s_out = [raised |-> FALSE, rows |-> <<>>]

\* No call of the resolver is in flight besides the modelled ones.
CallsIdle == calls = <<>>

\* No large batch is being collected.
ProgressIdle ==
  /\ p_outcomes = <<>>
  /\ p_finished = 0
  /\ p_count = 0
  /\ p_valid = 0
  /\ p_hits = 0
  /\ p_log = <<>>

\* No large batch is with the thread pool.
PoolIdle ==
  /\ q_max_workers = 0
  /\ q_total = 0
  /\ q_futures = <<>>

\* No GitHubAPIRest object is in use.
WarnIdle ==
  /\ w_token = FALSE
  /\ w_shown = FALSE
  /\ w_printed = 0
  /\ w_threads = <<>>

\* Mutant: the call sleeps after every attempt, the one that ends it included.
SleepsAfterEvery(sleeps, s) == Append(sleeps, s.wait)

\* time.sleep(wait) stands right before `continue`, nowhere else.
SleepsAfter(sleeps, s) == IF s.act = "retry" THEN Append(sleeps, s.wait) ELSE sleeps

\* max_retries is a maximum number of attempts: the default is 2 and no caller
\* of the repository passes another value; the model draws it from 1..MaxRetriesBound.
InitResolver ==
  /\ r_variant \in Variants
  /\ r_max \in 1..MaxRetriesBound
  /\ r_attempt = 0
  /\ r_pc = "loop"
  /\ r_ret = [details |-> NoDetails, outcome |-> None]
  /\ r_sleeps = <<>>
  /\ r_resps = <<>>
  /\ MainIdle
  /\ ExtractIdle
  /\ SortIdle
  /\ CallsIdle
  /\ ProgressIdle
  /\ PoolIdle
  /\ WarnIdle

\* The body of get_issue_details from the loop head on: one attempt (the
\* transport call, its classification, and the sleep or return that follows
\* it), or, when range(max_retries) is exhausted, the return after the loop.
ResolverAttempt ==
  /\ r_pc = "loop"
  /\ IF r_attempt < r_max
       THEN \E resp \in Responses :
              LET s == AttemptStep(r_variant, r_max, r_attempt, resp) IN
                /\ r_resps' = Append(r_resps, resp.kind)
                /\ r_sleeps' = SleepsAfter(r_sleeps, s)
                /\ r_attempt' = IF s.act = "retry" THEN NextAttempt(r_attempt) ELSE r_attempt
                /\ r_pc' = CASE s.act = "retry" -> "loop"
                             [] s.act = "return" -> "returned"
                             [] OTHER -> "raised"
                /\ r_ret' = IF s.act = "return"
                              THEN [details |-> s.details, outcome |-> s.outcome]
                              ELSE r_ret
       ELSE /\ r_pc' = "returned"
            /\ r_ret' = [details |-> LoopExhausted.details, outcome |-> LoopExhausted.outcome]
            /\ UNCHANGED <<r_attempt, r_sleeps, r_resps>>
  /\ UNCHANGED <<r_variant, r_max>>
  /\ UNCHANGED <<main_vars, extract_vars, sort_vars, calls_vars, progress_vars, pool_vars, warn_vars>>

NextResolver == ResolverAttempt

SpecResolver == InitResolver /\ [][NextResolver]_vars

-----------------------------------------------------------------------------
(* The primary tracker and the data of a run                               *)

Min(a, b) == IF a < b THEN a ELSE b

\* Decimal digits of n as a sequence of one-character strings: str(n).
RECURSIVE Digits(_)
Digits(n) ==
  LET d == <<"0", "1", "2", "3", "4", "5", "6", "7", "8", "9">>[(n % 10) + 1] IN
    IF n < 10 THEN <<d>> ELSE Append(Digits(n \div 10), d)

\* The characters of the identifiers and links, in code-point order.
Alphabet == <<"-", "0", "1", "2", "3", "4", "5", "6", "7", "8", "9", "T", "U", "x">>

CharOrd(c) == CHOOSE k \in 1..Len(Alphabet) : Alphabet[k] = c

DigitChars == {"0", "1", "2", "3", "4", "5", "6", "7", "8", "9"}

\* int(number_str) succeeds on a non-empty string of digits.
IsInt(str) == str # <<>> /\ \A k \in 1..Len(str) : str[k] \in DigitChars

RECURSIVE ParseInt(_)
ParseInt(str) ==
  IF str = <<>> THEN 0
  ELSE 10 * ParseInt(SubSeq(str, 1, Len(str) - 1)) + (CharOrd(str[Len(str)]) - CharOrd("0"))

\* The number part of the identifier of the i-th issue the tracker lists
\* (the tracker does not list issues by number).
IdNumber(i) ==
  CASE i = 1 -> 289
    [] i = 2 -> 29
    [] i = 3 -> 3
    [] OTHER -> 100 + i

\* A team-prefixed identifier, "T-<number>", as a sequence of characters.
Identifier(i) == <<"T", "-">> \o Digits(IdNumber(i))

\* Text that may hold tracker references (a URL, a title, a description) is
\* the sequence of its URL-shaped pieces <host>/<repo>/<kind>/<tail>; text
\* that holds none is the empty sequence.
Piece(host, kind, tail) == [host |-> host, repo |-> "org/x", kind |-> kind, tail |-> tail]

\* An attachment URL that is a GitHub issue link: github.com/org/x/issues/<n>.
IssueUrl(n) == <<Piece("github.com", "issues", Digits(n))>>

\* The description of a record: null, or a text.
NullDescription == [null |-> TRUE, text |-> <<>>]
Description(text) == [null |-> FALSE, text |-> text]

\* The attachments field of a record: the key is missing, its value is null,
\* or it holds the nodes.
MissingAttachments == [shape |-> "missing", nodes |-> <<>>]
NullAttachments == [shape |-> "null", nodes |-> <<>>]
Attachments(nodes) == [shape |-> "nodes", nodes |-> nodes]

Attachment(url, title) == [url |-> url, title |-> title]

\* The status label of the i-th issue.
StatusAt(i) == IF i % 2 = 1 THEN "Done" ELSE "Todo"

\* The i-th issue of the team: it has no attachment, or one attachment that
\* links GitHub issue i.
IssueChoices(i) ==
  {[identifier |-> Identifier(i), status |-> StatusAt(i), title |-> <<>>,
    description |-> Description(<<>>), attachments |-> Attachments(att)] :
     att \in {<<>>, <<Attachment(IssueUrl(i), <<>>)>>}}

\* The issue lists a team can have, up to MaxIssues issues.
IssueLists ==
  UNION {{iss \in [1..n -> UNION {IssueChoices(i) : i \in 1..n}] :
            /\ \A i \in 1..n : iss[i] \in IssueChoices(i)
            /\ Cardinality({i \in 1..n : iss[i].attachments.nodes # <<>>}) <= MaxLinked} :
         n \in 0..MaxIssues}

\* A team of two linked issues, the second with an identifier whose suffix
\* is not a number.
MixedIssues ==
  <<[identifier |-> Identifier(1), status |-> StatusAt(1), title |-> <<>>,
     description |-> Description(<<>>),
     attachments |-> Attachments(<<Attachment(IssueUrl(1), <<>>)>>)],
    [identifier |-> <<"T", "-", "x">>, status |-> StatusAt(2), title |-> <<>>,
     description |-> Description(<<>>),
     attachments |-> Attachments(<<Attachment(IssueUrl(2), <<>>)>>)]>>

\* The issues the tracker can hold for the team.
TeamIssues == IssueLists \cup {MixedIssues}

\* The GraphQL query `issues(first: page_size, after: $cursor)`: the nodes
\* after the cursor, at most page_size of them, and pageInfo. A cursor is the
\* position of the node it points at; 0 stands for no cursor (None).
PageNodes(issues, after) ==
  SubSeq(issues, after + 1, Min(after + PageSize, Len(issues)))

PageInfo(issues, after) ==
  [hasNextPage |-> after + PageSize < Len(issues),
   endCursor |-> after + Len(PageNodes(issues, after))]

\* LinearAPI.get_all_team_issues(team_id, cursor): (issues, next_cursor).
get_all_team_issues(team_cursor) ==
  LET after == IF team_cursor # 0 THEN team_cursor ELSE 0 IN
    IF ~remote.team_exists
      THEN [issues |-> <<>>, next_cursor |-> 0]
      ELSE [issues |-> PageNodes(remote.issues, after),
            next_cursor |-> IF PageInfo(remote.issues, after).hasNextPage
                              THEN PageInfo(remote.issues, after).endCursor ELSE 0]

-----------------------------------------------------------------------------
(* Link extraction                                                         *)

\* The URL-shape patterns, named by the path segment they require:
\*   github\.com/([^/]+/[^/]+)/issues/(\d+)
\*   github\.com/([^/]+/[^/]+)/pull/(\d+)
IssuesPattern == "issues"
PullPattern == "pull"

\* (\d+) right after the path segment: the longest run of digits the tail
\* starts with.
RECURSIVE LeadingDigits(_)
LeadingDigits(tail) ==
  IF tail = <<>> \/ Head(tail) \notin DigitChars THEN <<>>
  ELSE <<Head(tail)>> \o LeadingDigits(Tail(tail))

\* The pattern matches at this piece of the text.
PieceMatches(pattern, piece) ==
  /\ piece.host = "github.com"
  /\ piece.kind = pattern
  /\ LeadingDigits(piece.tail) # <<>>

\* re.finditer(pattern, text): the matches, in text order.
finditer(pattern, text) == SelectSeq(text, LAMBDA piece : PieceMatches(pattern, piece))

\* re.search(pattern, text): the first match as a one-element sequence, the
\* empty sequence for None.
search(pattern, text) ==
  IF finditer(pattern, text) = <<>> THEN <<>> ELSE <<finditer(pattern, text)[1]>>

\* The tuple (repo, int(number), source) built from match.groups().
Link(match, where, text) ==
  [repo |-> match.repo, number |-> ParseInt(LeadingDigits(match.tail)),
   source |-> [where |-> where, text |-> text]]

\* `for pattern in github_patterns: match = re.search(pattern, text)`: one
\* link per pattern that matches, in pattern order.
RECURSIVE SearchEach(_, _, _)
SearchEach(patterns, where, text) ==
  IF patterns = <<>> THEN <<>>
  ELSE LET match == search(Head(patterns), text) IN
         (IF match = <<>> THEN <<>> ELSE <<Link(match[1], where, text)>>)
           \o SearchEach(Tail(patterns), where, text)

\* `for pattern in github_patterns: for match in re.finditer(pattern, text)`:
\* every match, pattern by pattern; the source is the matched substring.
RECURSIVE FindEach(_, _, _)
FindEach(patterns, where, text) ==
  IF patterns = <<>> THEN <<>>
  ELSE LET matches == finditer(Head(patterns), text) IN
         [k \in 1..Len(matches) |-> Link(matches[k], where, <<matches[k]>>)]
           \o FindEach(Tail(patterns), where, text)

\* issue_data.get("attachments", {}).get("nodes", []) raises AttributeError
\* when the value of "attachments" is None.
AttachmentsRaise(issue_data) == issue_data.attachments.shape = "null"

Nodes(issue_data) == issue_data.attachments.nodes

\* What an extractor does: it returns links, or an exception leaves it.
Returned(links) == [raised |-> FALSE, links |-> links]
Raised == [raised |-> TRUE, links |-> <<>>]

\* github_patterns of extract_first_attachment_github_link.
FirstPatterns == <<IssuesPattern>>

\* The loop over the attachments that returns at the first match of a URL.
RECURSIVE FirstInAttachments(_)
FirstInAttachments(nodes) ==
  IF nodes = <<>> THEN <<>>
  ELSE LET found == SearchEach(FirstPatterns, "url", Head(nodes).url) IN
         IF found # <<>> THEN <<found[1]>> ELSE FirstInAttachments(Tail(nodes))

\* Mutant: the loop does not return at the first match and keeps the last.
RECURSIVE LastInAttachments(_)
LastInAttachments(nodes) ==
  IF nodes = <<>> THEN <<>>
  ELSE LET found == SearchEach(FirstPatterns, "url", nodes[Len(nodes)].url) IN
         IF found # <<>> THEN <<found[1]>>
         ELSE LastInAttachments(SubSeq(nodes, 1, Len(nodes) - 1))

extract_last_attachment_github_link(issue_data) ==
  IF AttachmentsRaise(issue_data) THEN Raised
  ELSE Returned(LastInAttachments(Nodes(issue_data)))

\* extract_first_attachment_github_link(issue_data): the tuple as a
\* one-element sequence, the empty sequence for None.
extract_first_attachment_github_link(issue_data) ==
  IF AttachmentsRaise(issue_data) THEN Raised
  ELSE Returned(FirstInAttachments(Nodes(issue_data)))

\* github_patterns of extract_all_github_links.
AllPatterns == <<IssuesPattern, PullPattern>>

\* The loop over the attachments of extract_all_github_links: the URL of an
\* attachment, then its title, attachment by attachment.
RECURSIVE ScanAttachments(_)
ScanAttachments(nodes) ==
  IF nodes = <<>> THEN <<>>
  ELSE SearchEach(AllPatterns, "url", Head(nodes).url)
         \o SearchEach(AllPatterns, "title", Head(nodes).title)
         \o ScanAttachments(Tail(nodes))

\* issue_data.get("description", "") or ""
DescriptionText(issue_data) ==
  IF issue_data.description.null THEN <<>> ELSE issue_data.description.text

\* extract_all_github_links(issue_data): found_links.
extract_all_github_links(issue_data) ==
  IF AttachmentsRaise(issue_data) THEN Raised
  ELSE Returned(ScanAttachments(Nodes(issue_data))
                  \o FindEach(AllPatterns, "description", DescriptionText(issue_data)))

\* Phase 1 raises when the extractor raises on one of the issues.
ExtractionRaises(issues) ==
  \E i \in 1..Len(issues) : extract_first_attachment_github_link(issues[i]).raised

\* Phase 1: the tasks of the issues that have a link, in issue order.
RECURSIVE CollectTasks(_)
CollectTasks(issues) ==
  IF issues = <<>> THEN <<>>
  ELSE LET link == extract_first_attachment_github_link(Head(issues)).links
           rest == CollectTasks(Tail(issues)) IN
         IF link = <<>> THEN rest
         ELSE <<[linear_id |-> Head(issues).identifier,
                 linear_status |-> Head(issues).status,
                 repo |-> link[1].repo,
                 issue_number |-> link[1].number]>> \o rest

-----------------------------------------------------------------------------
(* process_github_link and the futures of the thread pool                  *)

NoRow == [present |-> FALSE, linear_id |-> <<>>, linear_status |-> "",
          gh_number |-> <<>>, gh_status |-> "", repo |-> ""]

\* process_github_link after get_issue_details has returned (details, status).
process_github_link(task, details, status) ==
  IF status = "success" /\ details.present /\ details.number # 0
    THEN [row |-> [present |-> TRUE, linear_id |-> task.linear_id,
                   linear_status |-> task.linear_status,
                   gh_number |-> Digits(details.number),
                   gh_status |-> details.state, repo |-> task.repo],
          status |-> status]
    ELSE [row |-> NoRow, status |-> status]

\* A future of executor.submit: pending in the work queue, running in a
\* worker thread, or finished with a result or an exception; `yielded`
\* counts how often as_completed has handed it to the collecting loop.
NewFuture ==
  [st |-> "pending", attempt |-> 0, exc |-> FALSE,
   row |-> NoRow, status |-> None, yielded |-> 0]

Running == {i \in 1..Len(futures) : futures[i].st = "running"}
Pending == {i \in 1..Len(futures) : futures[i].st = "pending"}

-----------------------------------------------------------------------------
(* Sorting and filtering                                                   *)

\* Python's < on strings.
RECURSIVE StrLess(_, _)
StrLess(a, b) ==
  IF b = <<>> THEN FALSE
  ELSE IF a = <<>> THEN TRUE
  ELSE IF Head(a) # Head(b) THEN CharOrd(Head(a)) < CharOrd(Head(b))
  ELSE StrLess(Tail(a), Tail(b))

\* The position of the first "-" of an identifier, 0 when it has none.
DashIndex(id) ==
  IF \E k \in 1..Len(id) : id[k] = "-"
    THEN CHOOSE k \in 1..Len(id) : id[k] = "-" /\ \A j \in 1..(k - 1) : id[j] # "-"
    ELSE 0

\* sort_key(row): (prefix, number), (prefix, number_str) or (linear_id, 0).
sort_key(row) ==
  LET id == row.linear_id
      k == DashIndex(id)
      number_str == SubSeq(id, k + 1, Len(id)) IN
    IF k # 0
      THEN IF IsInt(number_str)
             THEN [prefix |-> SubSeq(id, 1, k - 1), isnum |-> TRUE,
                   num |-> ParseInt(number_str), str |-> <<>>]
             ELSE [prefix |-> SubSeq(id, 1, k - 1), isnum |-> FALSE,
                   num |-> 0, str |-> number_str]
      ELSE [prefix |-> id, isnum |-> TRUE, num |-> 0, str |-> <<>>]

\* Comparing two keys of one prefix raises TypeError when one holds an int
\* and the other a str.
KeysIncomparable(k1, k2) == k1.prefix = k2.prefix /\ k1.isnum # k2.isnum

\* Mutant: the number part is compared as a string.
KeyLessLexical(k1, k2) ==
  IF k1.prefix # k2.prefix THEN StrLess(k1.prefix, k2.prefix)
  ELSE IF k1.isnum THEN StrLess(Digits(k1.num), Digits(k2.num))
  ELSE StrLess(k1.str, k2.str)

\* Python's < on two comparable keys (tuples).
KeyLess(k1, k2) ==
  IF k1.prefix # k2.prefix THEN StrLess(k1.prefix, k2.prefix)
  ELSE IF k1.isnum THEN k1.num < k2.num
  ELSE StrLess(k1.str, k2.str)

\* list.sort(key=sort_key) raises when it has to compare incomparable keys.
SortRaises(rows) ==
  \E i, j \in 1..Len(rows) : KeysIncomparable(sort_key(rows[i]), sort_key(rows[j]))

RowLess(r1, r2) == KeyLess(sort_key(r1), sort_key(r2))

\* Stable insertion of a row after the rows that are not greater.
RECURSIVE InsertRow(_, _)
InsertRow(x, sorted) ==
  IF sorted = <<>> THEN <<x>>
  ELSE IF RowLess(x, sorted[Len(sorted)])
    THEN Append(InsertRow(x, SubSeq(sorted, 1, Len(sorted) - 1)), sorted[Len(sorted)])
    ELSE Append(sorted, x)

\* Mutant: the table is left in the order the rows were collected in.
UnsortedRows(rows) == rows

\* table_rows.sort(key=sort_key): a stable sort, equal keys keep their order.
RECURSIVE SortRows(_)
SortRows(rows) ==
  IF rows = <<>> THEN <<>>
  ELSE InsertRow(rows[Len(rows)], SortRows(SubSeq(rows, 1, Len(rows) - 1)))

FILTERED_STATUS_PAIRS ==
  {<<"done", "closed">>, <<"backlog", "open">>, <<"canceled", "closed">>,
   <<"in review", "open">>, <<"todo", "open">>, <<"in progress", "open">>,
   <<"duplicate", "closed">>, <<"will not fix", "closed">>, <<"triage", "open">>}

\* Mutant: the statuses are looked up as they are, without lower().
IsExpectedPairCaseSensitive(row) ==
  <<row.linear_status, row.gh_status>> \in FILTERED_STATUS_PAIRS

\* `status_pair = (linear_status.lower(), gh_status.lower())` and its lookup.
IsExpectedPair(row) ==
  <<Lower(row.linear_status), Lower(row.gh_status)>> \in FILTERED_STATUS_PAIRS

\* Mutant: each kept row is put behind the rows kept after it.
RECURSIVE FilterRowsPrepending(_)
FilterRowsPrepending(rows) ==
  IF rows = <<>> THEN <<>>
  ELSE IF IsExpectedPair(Head(rows)) THEN FilterRowsPrepending(Tail(rows))
  ELSE Append(FilterRowsPrepending(Tail(rows)), Head(rows))

\* The loop that keeps the rows whose status pair is not filtered.
FilterRows(rows) == SelectSeq(rows, LAMBDA r : ~IsExpectedPair(r))

\* The text of a report starts with its kind, then the Linear identifier.
ReportLess(e1, e2) ==
  IF e1.kind # e2.kind THEN e1.kind = "ERROR"
                            \/ (e1.kind = "EXCEPTION" /\ e2.kind # "ERROR")
                            \/ (e1.kind = "NOT FOUND" /\ e2.kind = "RATE LIMITED")
  ELSE StrLess(e1.linear_id, e2.linear_id)

RECURSIVE InsertReport(_, _)
InsertReport(x, sorted) ==
  IF sorted = <<>> THEN <<x>>
  ELSE IF ReportLess(x, sorted[Len(sorted)])
    THEN Append(InsertReport(x, SubSeq(sorted, 1, Len(sorted) - 1)), sorted[Len(sorted)])
    ELSE Append(sorted, x)

\* Mutant: the reports are printed in the order they were collected in.
UnsortedReports(reports) == reports

\* sorted(error_reports)
RECURSIVE SortReports(_)
SortReports(reports) ==
  IF reports = <<>> THEN <<>>
  ELSE InsertReport(reports[Len(reports)], SortReports(SubSeq(reports, 1, Len(reports) - 1)))

Report(kind, task) ==
  [kind |-> kind, linear_id |-> task.linear_id, repo |-> task.repo,
   issue_number |-> task.issue_number]

-----------------------------------------------------------------------------
(* Specification Spec: one run of query_all_issues.main                    *)

ResolverIdle ==
  /\ r_variant = "cli"
  /\ r_max = DefaultMaxRetries
  /\ r_attempt = 0
  /\ r_pc = "idle"
  /\ r_ret = [details |-> NoDetails, outcome |-> None]
  /\ r_sleeps = <<>>
  /\ r_resps = <<>>

NothingPrinted ==
  [completed |-> FALSE, reports |-> <<>>, rows |-> <<>>, summary |-> FALSE,
   total |-> 0, linked |-> 0, valid |-> 0]

\* The state when main() starts: the command line is parsed and the .env
\* file read; the primary tracker holds some team and issue list.
Init ==
  /\ pc = "start"
  /\ tokens \in [linear_token : BOOLEAN, github_token : BOOLEAN]
  /\ args \in [stop_after : 0..MaxStopAfter, show_all : BOOLEAN]
  /\ remote \in [team_exists : BOOLEAN, issues : TeamIssues]
  /\ all_issues = <<>>
  /\ cursor = 0
  /\ fetches = 0
  /\ linear_calls = [lookup |-> 0, page |-> 0]
  /\ github_tasks = <<>>
  /\ issues_with_gh_links = 0
  /\ max_workers = 0
  /\ futures = <<>>
  /\ table_rows = <<>>
  /\ error_reports = <<>>
  /\ processed_count = 0
  /\ rate_limit_hits = 0
  /\ progress = <<>>
  /\ printed = NothingPrinted
  /\ exit_code = -1
  /\ ResolverIdle
  /\ ExtractIdle
  /\ SortIdle
  /\ CallsIdle
  /\ ProgressIdle
  /\ PoolIdle
  /\ WarnIdle

\* `return code` of main(), also from the `except Exception` at its end.
Exit(code) ==
  /\ pc' = "done"
  /\ exit_code' = code

\* Mutant: both tokens are required.
check_tokens_both(linear_token, github_token) == linear_token /\ github_token

\* Mutant: either token is enough.
check_tokens_either(linear_token, github_token) == linear_token \/ github_token

\* check_tokens(linear_token, github_token): the Linear token is required,
\* the GitHub token is not looked at.
check_tokens(linear_token, github_token) == linear_token

\* `if not check_tokens_tuple(tokens): return 1`
CheckTokens ==
  /\ pc = "start"
  /\ IF check_tokens(tokens.linear_token, tokens.github_token)
       THEN pc' = "lookup" /\ UNCHANGED exit_code
       ELSE Exit(1)
  /\ UNCHANGED <<tokens, args, remote, all_issues, cursor, fetches, linear_calls, github_tasks,
                 issues_with_gh_links, max_workers, futures, table_rows,
                 error_reports, processed_count, rate_limit_hits, progress, printed>>
  /\ UNCHANGED <<resolver_vars, extract_vars, sort_vars, calls_vars, progress_vars, pool_vars, warn_vars>>

\* Mutant: a team that is not found is treated as a team without issues.
LookupTeamIgnoresMissing ==
  /\ pc = "lookup"
  /\ pc' = "fetch"
  /\ UNCHANGED exit_code
  /\ linear_calls' = [linear_calls EXCEPT !.lookup = @ + 1]
  /\ UNCHANGED <<tokens, args, remote, all_issues, cursor, fetches, github_tasks,
                 issues_with_gh_links, max_workers, futures, table_rows,
                 error_reports, processed_count, rate_limit_hits, progress, printed>>
  /\ UNCHANGED <<resolver_vars, extract_vars, sort_vars, calls_vars, progress_vars, pool_vars, warn_vars>>

\* linear.get_team_by_identifier(args.team_name): the team, or None.
LookupTeam ==
  /\ pc = "lookup"
  /\ IF remote.team_exists
       THEN pc' = "fetch" /\ UNCHANGED exit_code
       ELSE Exit(1)
  /\ linear_calls' = [linear_calls EXCEPT !.lookup = @ + 1]
  /\ UNCHANGED <<tokens, args, remote, all_issues, cursor, fetches, github_tasks,
                 issues_with_gh_links, max_workers, futures, table_rows,
                 error_reports, processed_count, rate_limit_hits, progress, printed>>
  /\ UNCHANGED <<resolver_vars, extract_vars, sort_vars, calls_vars, progress_vars, pool_vars, warn_vars>>

\* Mutant: a failed page fetch ends the pagination loop, and the run goes on
\* with the pages it has.
TransportFailureSwallowed ==
  /\ pc \in {"lookup", "fetch"}
  /\ IF pc = "lookup" THEN Exit(1) ELSE pc' = "extract" /\ UNCHANGED exit_code
  /\ linear_calls' = IF pc = "lookup" THEN [linear_calls EXCEPT !.lookup = @ + 1]
                                        ELSE [linear_calls EXCEPT !.page = @ + 1]
  /\ UNCHANGED <<tokens, args, remote, all_issues, cursor, fetches, github_tasks,
                 issues_with_gh_links, max_workers, futures, table_rows,
                 error_reports, processed_count, rate_limit_hits, progress, printed>>
  /\ UNCHANGED <<resolver_vars, extract_vars, sort_vars, calls_vars, progress_vars, pool_vars, warn_vars>>

\* Mutant: pages are still requested while the futures are collected.
TransportFailureDuringDispatch ==
  /\ pc \in {"lookup", "fetch", "collect"}
  /\ Exit(1)
  /\ linear_calls' = IF pc = "lookup" THEN [linear_calls EXCEPT !.lookup = @ + 1]
                                        ELSE [linear_calls EXCEPT !.page = @ + 1]
  /\ UNCHANGED <<tokens, args, remote, all_issues, cursor, fetches, github_tasks,
                 issues_with_gh_links, max_workers, futures, table_rows,
                 error_reports, processed_count, rate_limit_hits, progress, printed>>
  /\ UNCHANGED <<resolver_vars, extract_vars, sort_vars, calls_vars, progress_vars, pool_vars, warn_vars>>

\* A request to the primary tracker fails (requests raises in LinearAPI.query):
\* the exception reaches the `except Exception` of main, which returns 1.
TransportFailure ==
  /\ pc \in {"lookup", "fetch"}
  /\ Exit(1)
  /\ linear_calls' = IF pc = "lookup" THEN [linear_calls EXCEPT !.lookup = @ + 1]
                                        ELSE [linear_calls EXCEPT !.page = @ + 1]
  /\ UNCHANGED <<tokens, args, remote, all_issues, cursor, fetches, github_tasks,
                 issues_with_gh_links, max_workers, futures, table_rows,
                 error_reports, processed_count, rate_limit_hits, progress, printed>>
  /\ UNCHANGED <<resolver_vars, extract_vars, sort_vars, calls_vars, progress_vars, pool_vars, warn_vars>>

\* Mutant: the loop does not feed the returned cursor into the next fetch.
NextCursorKept(old, next) == old

\* `cursor = next_cursor`
NextCursor(old, next) == next

\* Mutant: the loop goes on until more than stop_after issues are there.
CapReachedStrict(stop_after, count) == stop_after # 0 /\ count > stop_after

\* `if args.stop_after and len(all_issues) >= args.stop_after`
CapReached(stop_after, count) == stop_after # 0 /\ count >= stop_after

\* Mutant: the loop does not stop at a page without a next cursor.
LastPageNever(next_cursor) == FALSE

\* `if not next_cursor: break`
LastPage(next_cursor) == next_cursor = 0

\* One iteration of the `while True` pagination loop.
FetchPage ==
  /\ pc = "fetch"
  /\ LET page == get_all_team_issues(cursor)
         fetched == all_issues \o page.issues IN
       /\ fetches' = fetches + 1
       /\ linear_calls' = [linear_calls EXCEPT !.page = @ + 1]
       /\ IF CapReached(args.stop_after, Len(fetched))
            THEN /\ all_issues' = SubSeq(fetched, 1, args.stop_after)
                 /\ pc' = "extract"
                 /\ UNCHANGED cursor
            ELSE /\ all_issues' = fetched
                 /\ IF LastPage(page.next_cursor)
                      THEN pc' = "extract" /\ UNCHANGED cursor
                      ELSE pc' = "fetch" /\ cursor' = NextCursor(cursor, page.next_cursor)
  /\ UNCHANGED <<tokens, args, remote, github_tasks, issues_with_gh_links,
                 max_workers, futures, table_rows, error_reports, processed_count,
                 rate_limit_hits, progress, printed, exit_code>>
  /\ UNCHANGED <<resolver_vars, extract_vars, sort_vars, calls_vars, progress_vars, pool_vars, warn_vars>>

\* `max_workers = 10 if tokens.github_token else 5`
PoolSize(github_token) == IF github_token THEN WorkersWithToken ELSE WorkersWithoutToken

\* Phase 1 (the loop over all_issues) and the start of phase 2: the empty
\* collectors, max_workers and the ThreadPoolExecutor.
ExtractLinks ==
  /\ pc = "extract"
  /\ IF ExtractionRaises(all_issues)
       THEN /\ Exit(1)
            /\ UNCHANGED <<github_tasks, issues_with_gh_links, max_workers>>
       ELSE /\ github_tasks' = CollectTasks(all_issues)
            /\ issues_with_gh_links' = Len(CollectTasks(all_issues))
            /\ max_workers' = PoolSize(tokens.github_token)
            /\ pc' = IF CollectTasks(all_issues) = <<>> THEN "collect" ELSE "submit"
            /\ UNCHANGED exit_code
  /\ UNCHANGED <<tokens, args, remote, all_issues, cursor, fetches, linear_calls, futures,
                 table_rows, error_reports, processed_count, rate_limit_hits,
                 progress, printed>>
  /\ UNCHANGED <<resolver_vars, extract_vars, sort_vars, calls_vars, progress_vars, pool_vars, warn_vars>>

\* executor.submit(process_github_link, ...) for the next task of the dict
\* comprehension; after the last one the main thread enters as_completed.
SubmitTask ==
  /\ pc = "submit"
  /\ futures' = Append(futures, NewFuture)
  /\ pc' = IF Len(futures) + 1 = Len(github_tasks) THEN "collect" ELSE "submit"
  /\ UNCHANGED <<tokens, args, remote, all_issues, cursor, fetches, linear_calls, github_tasks,
                 issues_with_gh_links, max_workers, table_rows, error_reports,
                 processed_count, rate_limit_hits, progress, printed, exit_code>>
  /\ UNCHANGED <<resolver_vars, extract_vars, sort_vars, calls_vars, progress_vars, pool_vars, warn_vars>>

\* Mutant: the executor starts a thread for every work item.
HasFreeWorkerAlways(running, limit) == TRUE

\* ThreadPoolExecutor(max_workers=limit): a work item is taken up only by one
\* of the pool's threads, of which there are at most `limit`.
HasFreeWorker(running, limit) == running < limit

\* A worker thread takes the oldest pending work item off the queue; the
\* pool has at most max_workers threads.
WorkerStart(i) ==
  /\ pc \in {"submit", "collect"}
  /\ i \in Pending
  /\ \A j \in Pending : i <= j
  /\ HasFreeWorker(Cardinality(Running), max_workers)
  /\ futures' = [futures EXCEPT ![i].st = "running"]
  /\ UNCHANGED <<pc, tokens, args, remote, all_issues, cursor, fetches, linear_calls, github_tasks,
                 issues_with_gh_links, max_workers, table_rows, error_reports,
                 processed_count, rate_limit_hits, progress, printed, exit_code>>
  /\ UNCHANGED <<resolver_vars, extract_vars, sort_vars, calls_vars, progress_vars, pool_vars, warn_vars>>

\* The worker running process_github_link makes one attempt of
\* github.get_issue_details(repo, issue_number); when that call returns, the
\* worker builds the result and the future finishes.
WorkerAttempt(i) ==
  /\ pc \in {"submit", "collect"}
  /\ i \in Running
  /\ \E resp \in Responses :
       LET s == IF futures[i].attempt < DefaultMaxRetries
                  THEN AttemptStep("cli", DefaultMaxRetries, futures[i].attempt, resp)
                  ELSE LoopExhausted
           res == process_github_link(github_tasks[i], s.details, s.outcome) IN
         futures' = [futures EXCEPT ![i] =
           CASE s.act = "retry" -> [@ EXCEPT !.attempt = NextAttempt(@)]
             [] s.act = "return" -> [@ EXCEPT !.st = "finished", !.row = res.row,
                                               !.status = res.status]
             [] OTHER -> [@ EXCEPT !.st = "finished", !.exc = TRUE]]
  /\ UNCHANGED <<pc, tokens, args, remote, all_issues, cursor, fetches, linear_calls, github_tasks,
                 issues_with_gh_links, max_workers, table_rows, error_reports,
                 processed_count, rate_limit_hits, progress, printed, exit_code>>
  /\ UNCHANGED <<resolver_vars, extract_vars, sort_vars, calls_vars, progress_vars, pool_vars, warn_vars>>

\* An exception leaves process_github_link (any Exception of the runtime,
\* such as MemoryError): the executor stores it in the future, and
\* future.result() raises it in the collecting loop.
WorkerRaise(i) ==
  /\ pc \in {"submit", "collect"}
  /\ i \in Running
  /\ futures' = [futures EXCEPT ![i].st = "finished", ![i].exc = TRUE]
  /\ UNCHANGED <<pc, tokens, args, remote, all_issues, cursor, fetches, linear_calls, github_tasks,
                 issues_with_gh_links, max_workers, table_rows, error_reports,
                 processed_count, rate_limit_hits, progress, printed, exit_code>>
  /\ UNCHANGED <<resolver_vars, extract_vars, sort_vars, calls_vars, progress_vars, pool_vars, warn_vars>>

\* Mutant: as_completed hands out a finished future whether or not it has
\* been handed out before.
CanYieldAgain(i) == futures[i].st = "finished" /\ futures[i].yielded <= 1

\* as_completed yields a future once it is finished, each future once.
CanYield(i) == futures[i].st = "finished" /\ futures[i].yielded = 0

\* Mutant: an exception of a worker is not caught in the loop.
CatchesWorkerExceptionNot == FALSE

\* The `try ... except Exception` around future.result().
CatchesWorkerException == TRUE

\* Mutant: a link that was not found is passed over in silence.
ReportKindsSilentNotFound(f) ==
  IF f.exc THEN <<"EXCEPTION">>
  ELSE IF f.status = "success" /\ f.row.present THEN <<>>
  ELSE IF f.status = "rate_limited" THEN <<"RATE LIMITED">>
  ELSE IF f.status = "error" THEN <<"ERROR">>
  ELSE <<>>

\* The report the loop body appends for a future: its kind, if any.
ReportKinds(f) ==
  IF f.exc THEN <<"EXCEPTION">>
  ELSE IF f.status = "success" /\ f.row.present THEN <<>>
  ELSE IF f.status = "rate_limited" THEN <<"RATE LIMITED">>
  ELSE IF f.status = "not_found" THEN <<"NOT FOUND">>
  ELSE IF f.status = "error" THEN <<"ERROR">>
  ELSE <<>>

\* Mutant: the line is printed one result early.
ProgressDueEarly(count) == (count + 1) % ProgressEvery = 0

\* `if processed_count % 50 == 0`
ProgressDue(count) == count % ProgressEvery = 0

\* The numbers of the progress line.
ProgressLine(count, total, valid, hits) ==
  [processed |-> count, total |-> total, valid |-> valid, hits |-> hits]

\* Mutant: an append lands on the slot of the append before it.
AppendRowLost(rows, row) ==
  IF rows = <<>> THEN <<row>> ELSE [rows EXCEPT ![Len(rows)] = row]

\* table_rows.append(table_row), in the collecting thread.
AppendRow(rows, row) == Append(rows, row)

\* One iteration of `for future in as_completed(future_to_task)`.
Collect(i) ==
  /\ pc = "collect"
  /\ i \in 1..Len(futures)
  /\ CanYield(i)
  /\ LET f == futures[i]
         task == github_tasks[i]
         count == processed_count + 1
         rows == IF ~f.exc /\ f.status = "success" /\ f.row.present
                   THEN AppendRow(table_rows, f.row) ELSE table_rows
         hits == IF ~f.exc /\ f.status = "rate_limited"
                   THEN rate_limit_hits + 1 ELSE rate_limit_hits IN
       /\ futures' = [futures EXCEPT ![i].yielded = @ + 1]
       /\ processed_count' = count
       /\ IF f.exc /\ ~CatchesWorkerException
            THEN /\ Exit(1)
                 /\ UNCHANGED <<table_rows, rate_limit_hits, error_reports, progress>>
            ELSE /\ table_rows' = rows
                 /\ rate_limit_hits' = hits
                 /\ error_reports' =
                      error_reports \o [k \in 1..Len(ReportKinds(f)) |-> Report(ReportKinds(f)[k], task)]
                 /\ progress' =
                      IF ProgressDue(count)
                        THEN Append(progress, ProgressLine(count, Len(github_tasks), Len(rows), hits))
                        ELSE progress
                 /\ UNCHANGED <<pc, exit_code>>
  /\ UNCHANGED <<tokens, args, remote, all_issues, cursor, fetches, linear_calls, github_tasks,
                 issues_with_gh_links, max_workers, printed>>
  /\ UNCHANGED <<resolver_vars, extract_vars, sort_vars, calls_vars, progress_vars, pool_vars, warn_vars>>

\* Mutant: the loop is left as soon as no finished future is waiting.
BatchOverEarly == \A i \in 1..Len(futures) : ~CanYield(i)

\* as_completed is exhausted (every future has been yielded) and the `with`
\* block has shut the executor down, which waits for every worker.
BatchOver ==
  \A i \in 1..Len(futures) : futures[i].st = "finished" /\ futures[i].yielded >= 1

\* "Completed processing ...", then the sorted error reports.
CompleteBatch ==
  /\ pc = "collect"
  /\ BatchOver
  /\ printed' = [printed EXCEPT !.completed = TRUE, !.reports = SortReports(error_reports)]
  /\ pc' = "sort"
  /\ UNCHANGED <<tokens, args, remote, all_issues, cursor, fetches, linear_calls, github_tasks,
                 issues_with_gh_links, max_workers, futures, table_rows, error_reports,
                 processed_count, rate_limit_hits, progress, exit_code>>
  /\ UNCHANGED <<resolver_vars, extract_vars, sort_vars, calls_vars, progress_vars, pool_vars, warn_vars>>

\* table_rows.sort(key=sort_key); a TypeError of the comparison reaches the
\* `except Exception` of main.
SortTable ==
  /\ pc = "sort"
  /\ IF SortRaises(table_rows)
       THEN Exit(1) /\ UNCHANGED table_rows
       ELSE table_rows' = SortRows(table_rows) /\ pc' = "filter" /\ UNCHANGED exit_code
  /\ UNCHANGED <<tokens, args, remote, all_issues, cursor, fetches, linear_calls, github_tasks,
                 issues_with_gh_links, max_workers, futures, error_reports,
                 processed_count, rate_limit_hits, progress, printed>>
  /\ UNCHANGED <<resolver_vars, extract_vars, sort_vars, calls_vars, progress_vars, pool_vars, warn_vars>>

\* The mismatch filter, skipped with --show-all.
FilterTable ==
  /\ pc = "filter"
  /\ table_rows' = IF args.show_all THEN table_rows ELSE FilterRows(table_rows)
  /\ pc' = "output"
  /\ UNCHANGED <<tokens, args, remote, all_issues, cursor, fetches, linear_calls, github_tasks,
                 issues_with_gh_links, max_workers, futures, error_reports,
                 processed_count, rate_limit_hits, progress, printed, exit_code>>
  /\ UNCHANGED <<resolver_vars, extract_vars, sort_vars, calls_vars, progress_vars, pool_vars, warn_vars>>

\* `len(table_rows)` of the last summary line: table_rows is the filtered
\* list by then.
ValidCount(rows) == Len(rows)

\* The table (or the markdown file) and the three summary lines; return 0.
Output ==
  /\ pc = "output"
  /\ printed' = [printed EXCEPT !.rows = table_rows, !.summary = TRUE,
                                 !.total = Len(all_issues),
                                 !.linked = issues_with_gh_links,
                                 !.valid = ValidCount(table_rows)]
  /\ Exit(0)
  /\ UNCHANGED <<tokens, args, remote, all_issues, cursor, fetches, linear_calls, github_tasks,
                 issues_with_gh_links, max_workers, futures, table_rows, error_reports,
                 processed_count, rate_limit_hits, progress>>
  /\ UNCHANGED <<resolver_vars, extract_vars, sort_vars, calls_vars, progress_vars, pool_vars, warn_vars>>

Next ==
  \/ CheckTokens
  \/ LookupTeam
  \/ TransportFailure
  \/ FetchPage
  \/ ExtractLinks
  \/ SubmitTask
  \/ \E i \in 1..MaxLinked : WorkerStart(i)
  \/ \E i \in 1..MaxLinked : WorkerAttempt(i)
  \/ \E i \in 1..MaxLinked : WorkerRaise(i)
  \/ \E i \in 1..MaxLinked : Collect(i)
  \/ CompleteBatch
  \/ SortTable
  \/ FilterTable
  \/ Output

Spec == Init /\ [][Next]_vars

-----------------------------------------------------------------------------
(* Specification SpecWarn: MaxWarnCalls threads call get_issue_details on  *)
(* one GitHubAPIRest object; each call starts with                         *)
(* _show_token_warning_once, which reads and writes the object's flag      *)
(* without a lock, so the threads' steps interleave.                       *)

InitWarn ==
  /\ w_token \in BOOLEAN
  /\ w_shown = FALSE
  /\ w_printed = 0
  /\ w_threads = [t \in 1..MaxWarnCalls |-> "call"]
  /\ MainIdle
  /\ ResolverIdle
  /\ ExtractIdle
  /\ SortIdle
  /\ CallsIdle
  /\ ProgressIdle
  /\ PoolIdle

\* `if not self.token and not self._token_warning_shown:`
WarnCheck(t) ==
  /\ w_threads[t] = "call"
  /\ w_threads' = [w_threads EXCEPT ![t] = IF ~w_token /\ ~w_shown THEN "print" ELSE "loop"]
  /\ UNCHANGED <<w_token, w_shown, w_printed>>
  /\ UNCHANGED <<main_vars, resolver_vars, extract_vars, sort_vars, calls_vars,
                 progress_vars, pool_vars>>

\* The three print calls of the warning.
WarnPrint(t) ==
  /\ w_threads[t] = "print"
  /\ w_printed' = w_printed + 1
  /\ w_threads' = [w_threads EXCEPT ![t] = "set"]
  /\ UNCHANGED <<w_token, w_shown>>
  /\ UNCHANGED <<main_vars, resolver_vars, extract_vars, sort_vars, calls_vars,
                 progress_vars, pool_vars>>

\* `self._token_warning_shown = True`, and on to the retry loop.
WarnSet(t) ==
  /\ w_threads[t] = "set"
  /\ w_shown' = TRUE
  /\ w_threads' = [w_threads EXCEPT ![t] = "loop"]
  /\ UNCHANGED <<w_token, w_printed>>
  /\ UNCHANGED <<main_vars, resolver_vars, extract_vars, sort_vars, calls_vars,
                 progress_vars, pool_vars>>

NextWarn ==
  \/ \E t \in 1..MaxWarnCalls : WarnCheck(t)
  \/ \E t \in 1..MaxWarnCalls : WarnPrint(t)
  \/ \E t \in 1..MaxWarnCalls : WarnSet(t)

SpecWarn == InitWarn /\ [][NextWarn]_vars

-----------------------------------------------------------------------------
(* Specification SpecPaging: the run of main up to the end of the          *)
(* pagination loop, for teams of up to MaxPaged issues.                    *)

\* The issue lists of the teams: issues without links.
PagedIssueLists ==
  {[i \in 1..n |->
      [identifier |-> Identifier(i), status |-> StatusAt(i), title |-> <<>>,
       description |-> Description(<<>>), attachments |-> Attachments(<<>>)]] :
   n \in 0..MaxPaged}

InitPaging ==
  /\ pc = "start"
  /\ tokens \in [linear_token : BOOLEAN, github_token : BOOLEAN]
  /\ args \in [stop_after : 0..MaxPaged, show_all : {FALSE}]
  /\ remote \in [team_exists : BOOLEAN, issues : PagedIssueLists]
  /\ all_issues = <<>>
  /\ cursor = 0
  /\ fetches = 0
  /\ linear_calls = [lookup |-> 0, page |-> 0]
  /\ github_tasks = <<>>
  /\ issues_with_gh_links = 0
  /\ max_workers = 0
  /\ futures = <<>>
  /\ table_rows = <<>>
  /\ error_reports = <<>>
  /\ processed_count = 0
  /\ rate_limit_hits = 0
  /\ progress = <<>>
  /\ printed = NothingPrinted
  /\ exit_code = -1
  /\ ResolverIdle
  /\ ExtractIdle
  /\ SortIdle
  /\ CallsIdle
  /\ ProgressIdle
  /\ PoolIdle
  /\ WarnIdle

\* Someone removes the team from the tracker while the run is fetching:
\* from then on the query finds no team (`team` is null in the response).
TeamRemoved ==
  /\ pc = "fetch"
  /\ remote.team_exists
  /\ remote' = [remote EXCEPT !.team_exists = FALSE]
  /\ UNCHANGED <<pc, tokens, args, all_issues, cursor, fetches, linear_calls, github_tasks,
                 issues_with_gh_links, max_workers, futures, table_rows, error_reports,
                 processed_count, rate_limit_hits, progress, printed, exit_code>>
  /\ UNCHANGED <<resolver_vars, extract_vars, sort_vars, calls_vars, progress_vars, pool_vars, warn_vars>>

\* The steps of the main thread.
PagingStep ==
  \/ CheckTokens
  \/ LookupTeam
  \/ TransportFailure
  \/ FetchPage

NextPaging ==
  \/ PagingStep
  \/ TeamRemoved

SpecPaging == InitPaging /\ [][NextPaging]_vars

\* The main thread goes on as long as it can: every request it makes comes
\* back, with a response or with an exception.
SpecPagingFair == SpecPaging /\ WF_vars(PagingStep)

-----------------------------------------------------------------------------
(* Specification SpecExtract: one record given to both link extractors     *)

\* The pieces of text the records are made of: two issue links, a pull link
\* to the number of the first, a link whose trailing segment is no number,
\* and the same path on another host.
Issue7 == Piece("github.com", "issues", <<"7">>)
Issue9 == Piece("github.com", "issues", <<"9">>)
Pull7 == Piece("github.com", "pull", <<"7">>)
BadTail == Piece("github.com", "issues", <<"x">>)
OtherHost == Piece("gitlab.com", "issues", <<"7">>)

AttachmentUrls == {<<Issue7>>, <<Issue9>>, <<Pull7>>, <<BadTail>>, <<OtherHost>>}
AttachmentTitles == {<<>>, <<Issue9>>, <<Pull7>>}
RecordTitles == {<<>>, <<Issue9>>}
Descriptions ==
  {NullDescription} \cup
    {Description(t) : t \in {<<>>, <<Issue7>>, <<Pull7, Issue9>>, <<BadTail>>}}

AttachmentNodes ==
  UNION {[1..n -> {Attachment(u, t) : u \in AttachmentUrls, t \in AttachmentTitles}] :
           n \in 0..MaxAttachments}

Records ==
  [title : RecordTitles, description : Descriptions,
   attachments : {MissingAttachments, NullAttachments}
                   \cup {Attachments(nodes) : nodes \in AttachmentNodes}]

InitExtract ==
  /\ e_pc = "ready"
  /\ e_record \in Records
  /\ e_first = Returned(<<>>)
  /\ e_all = Returned(<<>>)
  /\ MainIdle
  /\ ResolverIdle
  /\ SortIdle
  /\ CallsIdle
  /\ ProgressIdle
  /\ PoolIdle
  /\ WarnIdle

\* Both extractors are applied to the record.
Extract ==
  /\ e_pc = "ready"
  /\ e_first' = extract_first_attachment_github_link(e_record)
  /\ e_all' = extract_all_github_links(e_record)
  /\ e_pc' = "done"
  /\ UNCHANGED <<e_record, main_vars, resolver_vars, sort_vars, calls_vars, progress_vars, pool_vars, warn_vars>>

NextExtract == Extract

SpecExtract == InitExtract /\ [][NextExtract]_vars

-----------------------------------------------------------------------------
(* Specification SpecSort: one table given to the sort of phase 3          *)

\* The identifiers of the rows: three of one team with 1, 2 and 3 digits, one
\* of another team, two whose suffix is no number, and one without a dash.
SortIds ==
  {<<"T", "-">> \o Digits(n) : n \in {3, 29, 289}}
    \cup {<<"U", "-", "5">>, <<"T", "-", "x">>, <<"T", "-", "U">>, <<"T">>}

\* The tables: up to MaxRows rows in any order, one row per identifier; the
\* sort reads row[0], the Linear identifier, only.
SortTables ==
  UNION {{t \in [1..n -> {[linear_id |-> id] : id \in SortIds}] :
            \A i, j \in 1..n : i # j => t[i] # t[j]} :
         n \in 0..MaxRows}

InitSort ==
  /\ s_pc = "ready"
  /\ s_rows \in SortTables
  /\ s_out = [raised |-> FALSE, rows |-> <<>>]
  /\ MainIdle
  /\ ResolverIdle
  /\ ExtractIdle
  /\ CallsIdle
  /\ ProgressIdle
  /\ PoolIdle
  /\ WarnIdle

\* table_rows.sort(key=sort_key): the sorted table, or the TypeError of a
\* comparison of an int with a str.
SortRun ==
  /\ s_pc = "ready"
  /\ s_out' = IF SortRaises(s_rows) THEN [raised |-> TRUE, rows |-> <<>>]
                                     ELSE [raised |-> FALSE, rows |-> SortRows(s_rows)]
  /\ s_pc' = "done"
  /\ UNCHANGED <<s_rows, main_vars, resolver_vars, extract_vars, calls_vars, progress_vars, pool_vars, warn_vars>>

NextSort == SortRun

SpecSort == InitSort /\ [][NextSort]_vars

-----------------------------------------------------------------------------
(* Specification SpecCalls: the worker threads' concurrent calls of        *)
(* github_api.get_issue_details, all on the one GitHubAPI object of main.  *)
(* The object holds `token`, assigned in __init__ and never again; a call  *)
(* works on its arguments, its locals and a copy of os.environ.            *)

\* A call that has not made an attempt yet.
NewCall ==
  [st |-> "loop", attempt |-> 0, resps |-> <<>>, sleeps |-> <<>>,
   ret |-> [details |-> NoDetails, outcome |-> None]]

\* Mutant: the loop variable is one counter kept on the shared object; a
\* call reads the furthest any call has advanced it.
AttemptOfShared(cs, c) ==
  CHOOSE m \in {cs[k].attempt : k \in 1..Len(cs)} :
    \A k \in 1..Len(cs) : cs[k].attempt <= m

\* `attempt`, the loop variable of call c: a local of its frame.
AttemptOf(cs, c) == cs[c].attempt

\* Call c with its loop variable at `attempt` meets `resp`: the sleep
\* (time.sleep in the calling thread) and `continue`, the return, or the
\* exception.
CallStep(call, attempt, resp) ==
  LET s == AttemptStep("cli", DefaultMaxRetries, attempt, resp) IN
    [st |-> CASE s.act = "retry" -> "loop"
              [] s.act = "return" -> "returned"
              [] OTHER -> "raised",
     attempt |-> IF s.act = "retry" THEN NextAttempt(call.attempt) ELSE call.attempt,
     resps |-> Append(call.resps, resp),
     sleeps |-> IF s.act = "retry" THEN Append(call.sleeps, s.wait) ELSE call.sleeps,
     ret |-> IF s.act = "return" THEN [details |-> s.details, outcome |-> s.outcome]
                                 ELSE call.ret]

InitCalls ==
  /\ calls = [c \in 1..MaxCalls |-> NewCall]
  /\ MainIdle
  /\ ResolverIdle
  /\ ExtractIdle
  /\ SortIdle
  /\ ProgressIdle
  /\ PoolIdle
  /\ WarnIdle

\* One iteration of the loop of call c, or its `return None, 'error'` after
\* the loop; the other calls may be anywhere, asleep included.
CallAttempt(c) ==
  /\ c \in 1..Len(calls)
  /\ calls[c].st = "loop"
  /\ IF AttemptOf(calls, c) < DefaultMaxRetries
       THEN \E resp \in Responses :
              calls' = [calls EXCEPT ![c] = CallStep(@, AttemptOf(calls, c), resp)]
       ELSE calls' = [calls EXCEPT ![c].st = "returned",
                                   ![c].ret = [details |-> LoopExhausted.details,
                                               outcome |-> LoopExhausted.outcome]]
  /\ UNCHANGED <<main_vars, resolver_vars, extract_vars, sort_vars, progress_vars, pool_vars, warn_vars>>

NextCalls == \E c \in 1..MaxCalls : CallAttempt(c)

SpecCalls == InitCalls /\ [][NextCalls]_vars

-----------------------------------------------------------------------------
(* Specification SpecProgress: the collecting loop of phase 2 over a batch *)
(* of up to MaxBatch tasks, each future reduced to the status it returns.  *)

\* How the statuses fall over a batch, by the position in which as_completed
\* yields the future.
OutcomePatterns == {"all_limited", "none_limited", "alternating", "fiftieth", "second_half"}

OutcomeAt(pattern, j) ==
  CASE pattern = "all_limited" -> "rate_limited"
    [] pattern = "none_limited" -> "success"
    [] pattern = "alternating" -> IF j % 2 = 1 THEN "rate_limited" ELSE "success"
    [] pattern = "fiftieth" -> IF j % ProgressEvery = 0 THEN "rate_limited" ELSE "not_found"
    [] OTHER -> IF j > ProgressEvery THEN "rate_limited" ELSE "error"

\* The sizes of the batches: just short of the first progress line, and one
\* and two results past the second.
BatchSizes == {ProgressEvery - 1, MaxBatch - 1, MaxBatch}

InitProgress ==
  /\ \E n \in BatchSizes, pattern \in OutcomePatterns :
       p_outcomes = [j \in 1..n |-> OutcomeAt(pattern, j)]
  /\ p_finished = 0
  /\ p_count = 0
  /\ p_valid = 0
  /\ p_hits = 0
  /\ p_log = <<>>
  /\ MainIdle
  /\ ResolverIdle
  /\ ExtractIdle
  /\ SortIdle
  /\ CallsIdle
  /\ PoolIdle
  /\ WarnIdle

\* A worker returns from process_github_link and its future finishes.
ProgressWorkerFinish ==
  /\ p_finished < Len(p_outcomes)
  /\ p_finished' = p_finished + 1
  /\ UNCHANGED <<p_outcomes, p_count, p_valid, p_hits, p_log>>
  /\ UNCHANGED <<main_vars, resolver_vars, extract_vars, sort_vars, calls_vars, pool_vars, warn_vars>>

\* One iteration of `for future in as_completed(future_to_task)` on a future
\* that returned (row, status), with a row when the status is success.
ProgressCollect ==
  /\ p_count < p_finished
  /\ LET status == p_outcomes[p_count + 1]
         count == p_count + 1
         valid == IF status = "success" THEN p_valid + 1 ELSE p_valid
         hits == IF status = "rate_limited" THEN p_hits + 1 ELSE p_hits IN
       /\ p_count' = count
       /\ p_valid' = valid
       /\ p_hits' = hits
       /\ p_log' = IF ProgressDue(count)
                     THEN Append(p_log, ProgressLine(count, Len(p_outcomes), valid, hits))
                     ELSE p_log
  /\ UNCHANGED <<p_outcomes, p_finished>>
  /\ UNCHANGED <<main_vars, resolver_vars, extract_vars, sort_vars, calls_vars, pool_vars, warn_vars>>

NextProgress ==
  \/ ProgressWorkerFinish
  \/ ProgressCollect

SpecProgress == InitProgress /\ [][NextProgress]_vars

-----------------------------------------------------------------------------
(* Specification SpecPool: the ThreadPoolExecutor of phase 2 with more     *)
(* tasks than threads, each future reduced to where it stands and to the   *)
(* number of get_issue_details calls made for it.                          *)

\* The sizes of the batches: one task more than the smaller pool has
\* threads, and MaxPoolTasks.
PoolBatchSizes == {WorkersWithoutToken + 1, MaxPoolTasks}

InitPool ==
  /\ \E github_token \in BOOLEAN : q_max_workers = PoolSize(github_token)
  /\ q_total \in PoolBatchSizes
  /\ q_futures = <<>>
  /\ MainIdle
  /\ ResolverIdle
  /\ ExtractIdle
  /\ SortIdle
  /\ CallsIdle
  /\ ProgressIdle
  /\ WarnIdle

PoolRunning == {i \in 1..Len(q_futures) : q_futures[i].st = "running"}
PoolPending == {i \in 1..Len(q_futures) : q_futures[i].st = "pending"}

\* executor.submit(process_github_link, ...) for the next task.
PoolSubmit ==
  /\ Len(q_futures) < q_total
  /\ q_futures' = Append(q_futures, [st |-> "pending", calls |-> 0])
  /\ UNCHANGED <<q_max_workers, q_total>>
  /\ UNCHANGED <<main_vars, resolver_vars, extract_vars, sort_vars, calls_vars,
                 progress_vars, warn_vars>>

\* A thread of the pool takes the oldest pending work item off the queue and
\* calls process_github_link, which calls get_issue_details once.
PoolWorkerStart(i) ==
  /\ i \in PoolPending
  /\ \A j \in PoolPending : i <= j
  /\ HasFreeWorker(Cardinality(PoolRunning), q_max_workers)
  /\ q_futures' = [q_futures EXCEPT ![i] = [st |-> "running", calls |-> @.calls + 1]]
  /\ UNCHANGED <<q_max_workers, q_total>>
  /\ UNCHANGED <<main_vars, resolver_vars, extract_vars, sort_vars, calls_vars,
                 progress_vars, warn_vars>>

\* process_github_link returns (or raises) and the future finishes; the
\* thread is free for the next work item.
PoolWorkerFinish(i) ==
  /\ i \in PoolRunning
  /\ q_futures' = [q_futures EXCEPT ![i].st = "finished"]
  /\ UNCHANGED <<q_max_workers, q_total>>
  /\ UNCHANGED <<main_vars, resolver_vars, extract_vars, sort_vars, calls_vars,
                 progress_vars, warn_vars>>

NextPool ==
  \/ PoolSubmit
  \/ \E i \in 1..MaxPoolTasks : PoolWorkerStart(i)
  \/ \E i \in 1..MaxPoolTasks : PoolWorkerFinish(i)

SpecPool == InitPool /\ [][NextPool]_vars

-----------------------------------------------------------------------------
(* Properties of the batch run (checked under Spec)                        *)

Tasks == 1..Len(github_tasks)

\* The rows and reports a task has contributed so far.
RowsOf(i) ==
  {k \in 1..Len(table_rows) : table_rows[k].linear_id = github_tasks[i].linear_id}
ReportsOf(i) ==
  {k \in 1..Len(error_reports) : error_reports[k].linear_id = github_tasks[i].linear_id}

\* The batch has been declared done: "Completed processing" is printed and
\* the rows are not yet filtered.
BatchDone == pc = "sort"

\* The main thread is past the collecting loop.
PastBatch ==
  \/ pc \in {"sort", "filter", "output"}
  \/ printed.completed

\* The main thread is past the pagination loop.
PastPaging ==
  \/ pc \in {"extract", "submit", "collect", "sort", "filter", "output"}
  \/ (pc = "done" /\ exit_code = 0)

\* C1: the collecting loop never hands a task out twice, it counts what it
\* has handed out, and when the batch is declared done it has processed
\* exactly the N submitted tasks, each once.
C1_ExactlyNCollected ==
  /\ \A i \in 1..Len(futures) : futures[i].yielded <= 1
  /\ processed_count = Cardinality({i \in 1..Len(futures) : futures[i].yielded = 1})
  /\ PastBatch =>
       /\ Len(futures) = Len(github_tasks)
       /\ processed_count = Len(github_tasks)
       /\ \A i \in Tasks : futures[i].yielded = 1

\* Two tasks, collected in the reverse of their submission order.
C1_Witness ==
  /\ BatchDone
  /\ Len(github_tasks) = 2
  /\ Len(table_rows) = 2
  /\ table_rows[1].linear_id = github_tasks[2].linear_id

\* C2: when the batch is done every task has contributed exactly one entry,
\* a row if its outcome was success and one report otherwise, so that
\* len(table_rows) + len(error_reports) = N.
C2_OneEntryPerTask ==
  BatchDone =>
    /\ Len(table_rows) + Len(error_reports) = Len(github_tasks)
    /\ \A i \in Tasks :
         /\ Cardinality(RowsOf(i)) + Cardinality(ReportsOf(i)) = 1
         /\ (Cardinality(RowsOf(i)) = 1 <=> (~futures[i].exc /\ futures[i].status = "success"))

C9_DoneOnlyAfterAll ==
  PastBatch =>
    /\ Len(futures) = Len(github_tasks)
    /\ Pending = {} /\ Running = {}
    /\ \A i \in Tasks : futures[i].st = "finished" /\ futures[i].yielded >= 1

C9_Witness ==
  /\ pc = "filter"
  /\ Len(futures) = 2
  /\ futures[1].attempt = 1
  /\ futures[2].attempt = 0

IsPrefix(a, b) == Len(a) <= Len(b) /\ a = SubSeq(b, 1, Len(a))

\* C10: without a processing cap the pagination loop accumulates the
\* tracker's issue list page by page, in order: what it holds is always a
\* prefix of the list without a duplicate identifier, and when the loop has
\* ended it is the whole list.
C10_PaginationComplete ==
  args.stop_after = 0 =>
    /\ IsPrefix(all_issues, remote.issues)
    /\ \A i, j \in 1..Len(all_issues) :
         all_issues[i].identifier = all_issues[j].identifier => i = j
    /\ PastPaging => all_issues = remote.issues

\* Three issues fetched in two pages.
C10_Witness ==
  /\ pc = "extract"
  /\ args.stop_after = 0
  /\ Len(all_issues) = 3
  /\ fetches = 2
  /\ all_issues = remote.issues

\* A call of get_all_team_issues has failed: more calls made than completed.
PageFetchFailed == linear_calls.page > fetches

\* C11: a transport failure on a page fetch is not retried (the failed call
\* is the last call made), no link extraction and no secondary resolution is
\* started for the pages already fetched, and the run ends with exit code 1.
C11_PageFailureFatal ==
  /\ linear_calls.page \in {fetches, fetches + 1}
  /\ PageFetchFailed =>
       /\ pc = "done"
       /\ exit_code = 1
       /\ github_tasks = <<>>
       /\ issues_with_gh_links = 0
       /\ futures = <<>>
       /\ table_rows = <<>>
       /\ error_reports = <<>>
       /\ ~printed.completed
       /\ ~printed.summary

\* The second page fetch fails after a first page with a linked issue.
C11_Witness ==
  /\ PageFetchFailed
  /\ fetches = 1
  /\ CollectTasks(all_issues) # <<>>
  /\ exit_code = 1

\* C12: without the primary-tracker token the run ends with exit code 1
\* before any call to the primary tracker and before any secondary
\* resolution: the only step it takes is the one from the start to the exit.
C12_NoTokenNoRequest ==
  ~tokens.linear_token =>
    /\ pc \in {"start", "done"}
    /\ pc = "done" => exit_code = 1
    /\ linear_calls = [lookup |-> 0, page |-> 0]
    /\ fetches = 0
    /\ futures = <<>>
    /\ github_tasks = <<>>

\* The run has ended for the missing token, with data waiting at the tracker.
C12_Witness ==
  /\ ~tokens.linear_token
  /\ pc = "done"
  /\ exit_code = 1
  /\ remote.team_exists
  /\ CollectTasks(remote.issues) # <<>>

\* C13: the secondary-tracker token is not required: with the primary token
\* set, the token check passes whether or not it is set; the pool size is
\* chosen once, before any task is submitted, as 10 with the token and 5
\* without, it never changes afterwards, and the pool never runs more workers.
C13_TokenOnlySetsPoolSize ==
  [][/\ (pc = "start" /\ tokens.linear_token) => (pc' = "lookup" /\ exit_code' = -1)
     /\ max_workers' # max_workers =>
           /\ max_workers = 0
           /\ futures = <<>> /\ futures' = <<>>
           /\ max_workers' = IF tokens.github_token THEN 10 ELSE 5
     /\ futures' # <<>> =>
           /\ max_workers' = IF tokens.github_token THEN 10 ELSE 5
           /\ Cardinality({i \in 1..Len(futures') : futures'[i].st = "running"})
                 <= max_workers'
     /\ tokens' = tokens]_vars

\* A run without the secondary token has resolved two links with a pool of 5
\* and ended with exit code 0.
C13_Witness ==
  /\ ~tokens.github_token
  /\ max_workers = 5
  /\ Len(futures) = 2
  /\ Len(printed.rows) >= 1
  /\ printed.summary
  /\ exit_code = 0

\* The rows the resolutions have produced.
ResolvedRows == {futures[i].row : i \in {j \in Tasks : futures[j].row.present}}

\* The rows of the table shown at the end of the run.
ShownRows == {printed.rows[k] : k \in 1..Len(printed.rows)}

\* The status pair of the row is in the table of expected pairs, whatever
\* the case of its letters.
ExpectedByTable(row) ==
  \E pair \in FILTERED_STATUS_PAIRS :
    /\ Lower(row.linear_status) = pair[1]
    /\ Lower(row.gh_status) = pair[2]

\* C20: in the default view a resolved row is shown if and only if its
\* status pair, compared case-insensitively, is not in the table of expected
\* pairs; with --show-all every resolved row is shown. A Done/closed row is
\* hidden by default and shown under --show-all, a Todo/closed row is shown
\* by default.
C20_MismatchFilter ==
  printed.summary =>
    /\ ShownRows \subseteq ResolvedRows
    /\ \A row \in ResolvedRows :
         /\ row \in ShownRows <=> (args.show_all \/ ~ExpectedByTable(row))
         /\ (Lower(row.linear_status) = "done" /\ Lower(row.gh_status) = "closed") =>
              (row \in ShownRows <=> args.show_all)
         /\ (Lower(row.linear_status) = "todo" /\ Lower(row.gh_status) = "closed") =>
              row \in ShownRows

\* The default view of a Done/closed row and a Todo/closed row shows the
\* second only.
C20_Witness ==
  /\ printed.summary
  /\ ~args.show_all
  /\ Len(futures) = 2
  /\ futures[1].row.present /\ futures[2].row.present
  /\ futures[1].row.linear_status = "Done" /\ futures[1].row.gh_status = "closed"
  /\ futures[2].row.linear_status = "Todo" /\ futures[2].row.gh_status = "closed"
  /\ printed.rows = <<futures[2].row>>

\* The number in the identifier of the tracker's issue that a row is about.
IssueNumberOf(row) ==
  IdNumber(CHOOSE i \in 1..Len(remote.issues) :
             remote.issues[i].identifier = row.linear_id)

\* C23: the final row sequence is a function of the set of resolved rows:
\* whatever order the workers completed in, it holds each row to show once,
\* in ascending order of the number in the identifier, which leaves one
\* sequence only.
C23_OutputIgnoresCompletionOrder ==
  printed.summary =>
    /\ ShownRows = {row \in ResolvedRows : args.show_all \/ ~ExpectedByTable(row)}
    /\ Len(printed.rows) = Cardinality(ShownRows)
    /\ \A a, b \in 1..Len(printed.rows) :
         a < b => IssueNumberOf(printed.rows[a]) < IssueNumberOf(printed.rows[b])

\* Two rows are shown, the row of the second task before the row of the first.
C23_Witness ==
  /\ printed.summary
  /\ Len(github_tasks) = 2
  /\ Len(printed.rows) = 2
  /\ printed.rows[1].linear_id = github_tasks[2].linear_id
  /\ printed.rows[2].linear_id = github_tasks[1].linear_id

\* The tasks whose resolution ended with outcome success.
SucceededTasks == {i \in Tasks : ~futures[i].exc /\ futures[i].status = "success"}

\* C24: the summary gives the number of records scanned, the number of
\* records with a link, and the number of rows whose resolution succeeded;
\* the third equals the number of tasks with outcome success in the default
\* view as in the show-all view.
C24_SummaryCounts ==
  printed.summary =>
    /\ printed.total = Len(all_issues)
    /\ printed.linked = Len(github_tasks)
    /\ printed.valid = Cardinality(SucceededTasks)

\* Three records were scanned: A with one attachment linking an issue, B
\* without links, C with one attachment linking another issue; and the batch
\* has been declared done.
ThreeRecordsABC ==
  /\ BatchDone
  /\ Len(all_issues) = 3
  /\ all_issues[1].attachments.nodes # <<>>
  /\ all_issues[2].attachments.nodes = <<>>
  /\ all_issues[3].attachments.nodes # <<>>

\* The link of A resolved with outcome success and issue details, the link
\* of C with outcome not_found.
ResolvedAThenNotFoundC ==
  /\ ~futures[1].exc /\ futures[1].status = "success" /\ futures[1].row.present
  /\ ~futures[2].exc /\ futures[2].status = "not_found"

\* C25: for the records A (linked, resolves successfully), B (no links) and
\* C (linked, not found) exactly two tasks are submitted, those of A and C in
\* this order; the run collects exactly one row, the one of A, and exactly
\* one diagnostic, a NOT FOUND for C; B has neither a task, a row nor a
\* diagnostic.
C25_EndToEndABC ==
  ThreeRecordsABC =>
    /\ Len(github_tasks) = 2
    /\ Len(futures) = 2
    /\ github_tasks[1].linear_id = all_issues[1].identifier
    /\ github_tasks[2].linear_id = all_issues[3].identifier
    /\ ResolvedAThenNotFoundC =>
         /\ Len(table_rows) = 1
         /\ table_rows[1].linear_id = all_issues[1].identifier
         /\ Len(error_reports) = 1
         /\ error_reports[1].linear_id = all_issues[3].identifier
         /\ error_reports[1].kind = "NOT FOUND"
         /\ printed.reports = error_reports
         /\ \A k \in 1..Len(github_tasks) : github_tasks[k].linear_id # all_issues[2].identifier

\* The batch of A, B and C is done with these outcomes, A resolved at its
\* first attempt.
C25_Witness ==
  /\ ThreeRecordsABC
  /\ ResolvedAThenNotFoundC
  /\ futures[1].attempt = 0
  /\ processed_count = 2

\* The place of a kind of report in the order of the report texts.
KindRank(kind) ==
  CASE kind = "ERROR" -> 1
    [] kind = "EXCEPTION" -> 2
    [] kind = "NOT FOUND" -> 3
    [] kind = "RATE LIMITED" -> 4

\* The tasks whose link failed to resolve.
FailedTasks ==
  {i \in Tasks : futures[i].exc \/ futures[i].status \in {"rate_limited", "not_found", "error"}}

\* C27: the diagnostics are printed in ascending order of their text (kind
\* first, then identifier), whatever order the tasks completed in: they are
\* the reports collected, each once, one per failed task. They are apart
\* from the rows: a failed task has no row in the table, and a task with a
\* row has no diagnostic.
C27_DiagnosticsSortedAndSeparate ==
  printed.completed =>
    /\ \A a, b \in 1..Len(printed.reports) :
         a < b =>
           \/ KindRank(printed.reports[a].kind) < KindRank(printed.reports[b].kind)
           \/ /\ printed.reports[a].kind = printed.reports[b].kind
              /\ StrLess(printed.reports[a].linear_id, printed.reports[b].linear_id)
    /\ Len(printed.reports) = Len(error_reports)
    /\ {printed.reports[k] : k \in 1..Len(printed.reports)}
         = {error_reports[k] : k \in 1..Len(error_reports)}
    /\ {printed.reports[k].linear_id : k \in 1..Len(printed.reports)}
         = {github_tasks[i].linear_id : i \in FailedTasks}
    /\ \A i \in FailedTasks : \A k \in 1..Len(printed.rows) :
         printed.rows[k].linear_id # github_tasks[i].linear_id
    /\ \A i \in FailedTasks : RowsOf(i) = {}
    /\ \A i \in Tasks : futures[i].row.present => ReportsOf(i) = {}

\* Two failed links whose reports were collected in the reverse of the
\* order they are printed in.
C27_Witness ==
  /\ printed.completed
  /\ Len(error_reports) = 2
  /\ printed.reports = <<error_reports[2], error_reports[1]>>

\* The futures the collecting loop has taken from as_completed.
Collected == {i \in 1..Len(futures) : futures[i].yielded >= 1}

\* The kind of report a failed future calls for.
KindOf(f) ==
  CASE f.exc -> "EXCEPTION"
    [] f.status = "rate_limited" -> "RATE LIMITED"
    [] f.status = "not_found" -> "NOT FOUND"
    [] OTHER -> "ERROR"

CollectedRows == {i \in Collected : ~futures[i].exc /\ futures[i].row.present}
CollectedFailures ==
  {i \in Collected :
     futures[i].exc \/ futures[i].status \in {"rate_limited", "not_found", "error"}}

\* The collectors hold what the collected futures returned, no more and no
\* less.
CollectorsExact ==
  pc \in {"submit", "collect", "sort"} =>
    /\ processed_count = Cardinality(Collected)
    /\ Len(table_rows) = Cardinality(CollectedRows)
    /\ {table_rows[k] : k \in 1..Len(table_rows)} = {futures[i].row : i \in CollectedRows}
    /\ Len(error_reports) = Cardinality(CollectedFailures)
    /\ {error_reports[k] : k \in 1..Len(error_reports)}
         = {Report(KindOf(futures[i]), github_tasks[i]) : i \in CollectedFailures}
    /\ rate_limit_hits =
         Cardinality({i \in Collected : ~futures[i].exc /\ futures[i].status = "rate_limited"})

\* A step of a worker thread: a future starts, retries or finishes.
WorkerStep ==
  \E i \in 1..Len(futures) :
    /\ Len(futures') = Len(futures)
    /\ futures'[i].st # futures[i].st \/ futures'[i].attempt # futures[i].attempt

\* C29: no append to the collectors is lost or corrupted under any
\* interleaving of worker completions: through the batch, table_rows and
\* error_reports hold exactly the rows and reports of the futures collected
\* so far, each once, and processed_count and rate_limit_hits count them;
\* the workers only return values: no step of a worker changes any of the
\* four, and every change of them comes with the collection of one future.
C29_CollectorsNeverLoseAppends ==
  /\ []CollectorsExact
  /\ [][/\ WorkerStep =>
            UNCHANGED <<table_rows, error_reports, processed_count, rate_limit_hits>>
        /\ (pc = "collect" /\ <<table_rows, error_reports, processed_count, rate_limit_hits>>
                               # <<table_rows', error_reports', processed_count', rate_limit_hits'>>) =>
             \E i \in 1..Len(futures) :
               /\ futures[i].st = "finished"
               /\ futures' = [futures EXCEPT ![i].yielded = @ + 1]]_vars

\* The second future was collected before the first, which had retried
\* once; each has its row in the table.
C29_Witness ==
  /\ pc = "sort"
  /\ Len(futures) = 2
  /\ Len(table_rows) = 2
  /\ table_rows[1] = futures[2].row
  /\ table_rows[2] = futures[1].row
  /\ futures[1].attempt = 1

\* C26: once the team is resolved and pagination has succeeded, the run ends
\* only by printing the summary and returning exit code 0, whatever the
\* outcomes of the links.
C26_AlwaysSummaryAndZero ==
  [][(PastPaging /\ pc' = "done") => (exit_code' = 0 /\ printed'.summary)]_vars

\* C31: main returns 0 when the run succeeds, that is when it reaches the
\* summary, and 1 in every other case: the primary token is missing, the
\* team is not found, or an exception reaches the top level (a failed
\* request, a failed sort). When the team is not found, no page is fetched
\* and no link is resolved.
C31_ExitCodes ==
  /\ pc # "done" => exit_code = -1
  /\ pc = "done" =>
       /\ exit_code \in {0, 1}
       /\ exit_code = 0 <=> printed.summary
       /\ ~tokens.linear_token => exit_code = 1
       /\ ~remote.team_exists => exit_code = 1
       /\ (linear_calls.lookup > 0 /\ linear_calls.page = 0 /\ fetches = 0) => exit_code = 1
       /\ PageFetchFailed => exit_code = 1
       /\ (printed.completed /\ SortRaises(table_rows) /\ ~printed.summary) => exit_code = 1
  /\ (tokens.linear_token /\ ~remote.team_exists) =>
       /\ linear_calls.page = 0
       /\ fetches = 0
       /\ all_issues = <<>>
       /\ github_tasks = <<>>
       /\ futures = <<>>

\* The run has ended because the team was not found, although the token is
\* set and the tracker holds linked issues.
C31_Witness ==
  /\ tokens.linear_token
  /\ ~remote.team_exists
  /\ pc = "done"
  /\ exit_code = 1
  /\ linear_calls.lookup = 1
  /\ CollectTasks(remote.issues) # <<>>

\* C33: pagination and resolution never overlap: every request for a page
\* (the delay after it included) is made in the pagination loop, before any
\* task exists or is submitted, and once a task is submitted, started or
\* finished no request goes to the primary tracker any more.
C33_PagingBeforeDispatch ==
  [][/\ (linear_calls' # linear_calls \/ fetches' # fetches \/ all_issues' # all_issues) =>
          /\ pc \in {"lookup", "fetch"}
          /\ github_tasks = <<>> /\ github_tasks' = <<>>
          /\ futures = <<>> /\ futures' = <<>>
     /\ futures # <<>> =>
          /\ linear_calls' = linear_calls
          /\ fetches' = fetches
          /\ cursor' = cursor
          /\ all_issues' = all_issues]_vars

\* Two pages were fetched, and then two tasks were submitted and are being
\* resolved.
C33_Witness ==
  /\ pc = "collect"
  /\ fetches = 2
  /\ linear_calls.page = 2
  /\ Len(futures) = 2
  /\ futures[1].st = "running"
  /\ futures[2].st = "running"

\* a is b with some elements left out.
RECURSIVE IsSubsequence(_, _)
IsSubsequence(a, b) ==
  IF a = <<>> THEN TRUE
  ELSE IF b = <<>> THEN FALSE
  ELSE IF Head(a) = Head(b) THEN IsSubsequence(Tail(a), Tail(b))
  ELSE IsSubsequence(a, Tail(b))

\* C37: the mismatch filter only removes rows. The sorted table it is given
\* is what --show-all displays; what it leaves for the default view is that
\* table with some rows left out: no row is added or altered and the rows
\* kept stay in the same relative order, so the displayed rows remain sorted.
C37_FilterOnlyRemoves ==
  [][pc = "filter" =>
       /\ IsSubsequence(table_rows', table_rows)
       /\ args.show_all => table_rows' = table_rows
       /\ \A a, b \in 1..Len(table_rows') :
            a < b => IssueNumberOf(table_rows'[a]) < IssueNumberOf(table_rows'[b])
       /\ \A a \in 1..Len(table_rows') : table_rows'[a] \in ResolvedRows]_vars

\* The default view of a run with two resolved rows, of which the filter
\* removed the first.
C37_Witness ==
  /\ pc = "output"
  /\ ~args.show_all
  /\ Len(futures) = 2
  /\ futures[1].row.present
  /\ futures[2].row.present
  /\ table_rows = <<futures[2].row>>

-----------------------------------------------------------------------------
(* Properties of link extraction (checked under SpecExtract)               *)

\* The record's attachment nodes, when the record has them.
RecordNodes == e_record.attachments.nodes

\* The text holds a GitHub reference of this kind: the host, the kind and a
\* trailing segment that starts with a digit.
HoldsReference(text, kind) ==
  \E j \in 1..Len(text) :
    /\ text[j].host = "github.com"
    /\ text[j].kind = kind
    /\ text[j].tail # <<>>
    /\ text[j].tail[1] \in {"0", "1", "2", "3", "4", "5", "6", "7", "8", "9"}

\* The attachments whose URL is a GitHub issue link.
IssueUrlNodes == {k \in 1..Len(RecordNodes) : HoldsReference(RecordNodes[k].url, "issues")}

\* The number an issue link of the records points at.
NumberOf(piece) == IF piece.tail = <<"7">> THEN 7 ELSE 9

\* C14: in bulk mode the extractor returns at most one link: the one matched
\* in the URL of the first attachment, in attachment order, whose URL matches
\* the mode's pattern (a GitHub issue URL); it comes from a URL, never from an
\* attachment title, the record title or the body, and a record with no
\* matching attachment URL yields no link.
C14_BulkFirstAttachmentOnly ==
  (e_pc = "done" /\ e_record.attachments.shape # "null") =>
    /\ ~e_first.raised
    /\ Len(e_first.links) <= 1
    /\ IssueUrlNodes = {} => e_first.links = <<>>
    /\ IssueUrlNodes # {} =>
         LET k == CHOOSE n \in IssueUrlNodes : \A m \in IssueUrlNodes : n <= m IN
           /\ Len(e_first.links) = 1
           /\ e_first.links[1].repo = RecordNodes[k].url[1].repo
           /\ e_first.links[1].number = NumberOf(RecordNodes[k].url[1])
           /\ e_first.links[1].source = [where |-> "url", text |-> RecordNodes[k].url]

\* The first attachment has a malformed URL and a title with an issue link,
\* the second has an issue URL, and the record title and the body hold links
\* too: the link of the second attachment's URL is returned.
C14_Witness ==
  /\ e_pc = "done"
  /\ e_record.attachments.shape = "nodes"
  /\ Len(RecordNodes) = 2
  /\ RecordNodes[1] = Attachment(<<BadTail>>, <<Issue9>>)
  /\ RecordNodes[2].url = <<Issue7>>
  /\ e_record.title = <<Issue9>>
  /\ e_record.description = Description(<<Pull7, Issue9>>)
  /\ Len(e_first.links) = 1
  /\ e_first.links[1].number = 7

\* The (repository, number) pair of a link.
PairOf(link) == <<link.repo, link.number>>

\* C15: the links of the all-matches mode hold no two entries with the same
\* (repository, number) pair (the first match of a pair is kept, later ones
\* are discarded).
C15_NoDuplicatePairs ==
  (e_pc = "done" /\ ~e_all.raised) =>
    \A i, j \in 1..Len(e_all.links) :
      i # j => PairOf(e_all.links[i]) # PairOf(e_all.links[j])

\* The place of a source in the priority order.
SourceRank(where) ==
  CASE where = "url" -> 1
    [] where = "title" -> 2
    [] where = "record title" -> 3
    [] OTHER -> 4

\* C16: the all-matches mode emits its links in source priority order
\* (attachment URLs, then attachment titles, then the record's own title,
\* then the body), and a link in the record's own title is in the result.
C16_SourcePriorityOrder ==
  (e_pc = "done" /\ ~e_all.raised) =>
    /\ \A i, j \in 1..Len(e_all.links) :
         i < j => SourceRank(e_all.links[i].source.where)
                    <= SourceRank(e_all.links[j].source.where)
    /\ (HoldsReference(e_record.title, "issues") \/ HoldsReference(e_record.title, "pull")) =>
         \E i \in 1..Len(e_all.links) : e_all.links[i].source.where = "record title"

\* The links the all-matches mode took from attachment URLs.
UrlLinks == SelectSeq(e_all.links, LAMBDA link : link.source.where = "url")

\* C17: both modes use the same patterns: on a record with one attachment,
\* the bulk mode matches the attachment URL if and only if the all-matches
\* mode matches it, and with the same (repository, number).
C17_SamePatternSet ==
  (e_pc = "done" /\ e_record.attachments.shape = "nodes" /\ Len(RecordNodes) = 1) =>
    /\ e_first.links # <<>> <=> UrlLinks # <<>>
    /\ e_first.links # <<>> => PairOf(e_first.links[1]) = PairOf(UrlLinks[1])

\* No scanned field of the record holds a well-formed reference; a field
\* that is missing or null holds none.
NoReference ==
  /\ \A k \in 1..Len(RecordNodes) : \A kind \in {"issues", "pull"} :
       /\ ~HoldsReference(RecordNodes[k].url, kind)
       /\ ~HoldsReference(RecordNodes[k].title, kind)
  /\ \A kind \in {"issues", "pull"} :
       /\ ~HoldsReference(e_record.description.text, kind)
       /\ ~HoldsReference(e_record.title, kind)

\* C18: a record with no reference, with malformed ones only, or with
\* missing or null attachments or body yields zero links from both modes,
\* and neither mode raises.
C18_NoReferenceNoLinks ==
  (e_pc = "done" /\ NoReference) =>
    /\ ~e_first.raised /\ e_first.links = <<>>
    /\ ~e_all.raised /\ e_all.links = <<>>

-----------------------------------------------------------------------------
(* Properties of the sort (checked under SpecSort)                         *)

\* The team prefix and the number of the identifiers that end in a number.
NumberedIds ==
  {<<"T", "-", "3">>, <<"T", "-", "2", "9">>, <<"T", "-", "2", "8", "9">>, <<"U", "-", "5">>}

TeamOf(id) == id[1]

ValueOf(id) ==
  CASE id = <<"T", "-", "3">> -> 3
    [] id = <<"T", "-", "2", "9">> -> 29
    [] id = <<"T", "-", "2", "8", "9">> -> 289
    [] OTHER -> 5

\* The identifiers of a table, in row order.
IdsOf(rows) == [k \in 1..Len(rows) |-> rows[k].linear_id]

\* C21: the rows are ordered by prefix first and by the numeric value of the
\* trailing number second: of two identifiers of one prefix the smaller
\* number comes first whatever the digit counts (T-3, T-29, T-289), and the
\* sorted table has the rows of the table it was given.
C21_NumericOrder ==
  (s_pc = "done" /\ ~s_out.raised) =>
    /\ Len(s_out.rows) = Len(s_rows)
    /\ {s_out.rows[k] : k \in 1..Len(s_out.rows)} = {s_rows[k] : k \in 1..Len(s_rows)}
    /\ \A a, b \in 1..Len(s_out.rows) :
         LET x == s_out.rows[a].linear_id
             y == s_out.rows[b].linear_id IN
           (a < b /\ x \in NumberedIds /\ y \in NumberedIds) =>
             IF TeamOf(x) = TeamOf(y) THEN ValueOf(x) < ValueOf(y)
                                      ELSE TeamOf(x) = "T" /\ TeamOf(y) = "U"

\* The table T-289, T-29, T-3 has been sorted to T-3, T-29, T-289.
C21_Witness ==
  /\ s_pc = "done"
  /\ IdsOf(s_rows) = <<<<"T", "-", "2", "8", "9">>, <<"T", "-", "2", "9">>, <<"T", "-", "3">>>>
  /\ ~s_out.raised
  /\ IdsOf(s_out.rows) = <<<<"T", "-", "3">>, <<"T", "-", "2", "9">>, <<"T", "-", "2", "8", "9">>>>

\* C22: the sort completes without error on every table, also when one
\* prefix group mixes identifiers with a numeric suffix and identifiers whose
\* suffix is no number or that have no dash, and the identifiers without a
\* numeric suffix are in lexical order within their prefix group.
C22_SortNeverRaises ==
  s_pc = "done" =>
    /\ ~s_out.raised
    /\ Len(s_out.rows) = Len(s_rows)
    /\ \A a, b \in 1..Len(s_out.rows) :
         LET x == s_out.rows[a].linear_id
             y == s_out.rows[b].linear_id IN
           (a < b /\ x \notin NumberedIds /\ y \notin NumberedIds
              /\ Len(x) > 1 /\ Len(y) > 1 /\ TeamOf(x) = TeamOf(y)) => StrLess(x, y)

-----------------------------------------------------------------------------
(* Properties of concurrent resolver calls (checked under SpecCalls)       *)

\* get_issue_details run alone, from the loop index `attempt`, against the
\* responses `resps`: where it stands after them.
RECURSIVE RunAlone(_, _, _)
RunAlone(attempt, sleeps, resps) ==
  IF resps = <<>>
    THEN [st |-> "loop", attempt |-> attempt, sleeps |-> sleeps,
          ret |-> [details |-> NoDetails, outcome |-> None]]
    ELSE LET s == AttemptStep("cli", DefaultMaxRetries, attempt, Head(resps)) IN
           CASE s.act = "retry" -> RunAlone(attempt + 1, Append(sleeps, s.wait), Tail(resps))
             [] s.act = "return" ->
                  [st |-> "returned", attempt |-> attempt, sleeps |-> sleeps,
                   ret |-> [details |-> s.details, outcome |-> s.outcome]]
             [] OTHER ->
                  [st |-> "raised", attempt |-> attempt, sleeps |-> sleeps,
                   ret |-> [details |-> NoDetails, outcome |-> None]]

\* C28: concurrent calls of the resolver share no mutable state: however the
\* attempts of the calls interleave, each call stands where it would stand
\* had it run alone against the responses it met: the same attempt count,
\* the same waits, and, once it has ended, the same outcome and details.
C28_CallsIndependent ==
  \A c \in 1..Len(calls) :
    LET alone == RunAlone(0, <<>>, calls[c].resps) IN
      /\ calls[c].st = alone.st
      /\ calls[c].attempt = alone.attempt
      /\ calls[c].sleeps = alone.sleeps
      /\ calls[c].ret = alone.ret

\* The first call is at its second attempt after a rate-limit response; the
\* second call started after that and has returned a rate-limit outcome.
C28_Witness ==
  /\ Len(calls) >= 2
  /\ calls[1].st = "loop" /\ calls[1].attempt = 1
  /\ calls[1].resps[1].kind = "rate_limit"
  /\ calls[2].st = "returned" /\ calls[2].attempt = 1
  /\ calls[2].ret.outcome = "rate_limited"

-----------------------------------------------------------------------------
(* Properties of progress reporting (checked under SpecProgress)           *)

\* The rate-limited ones among the first n futures collected.
LimitedAmong(n) == {j \in 1..n : p_outcomes[j] = "rate_limited"}

\* C30: a progress line is printed after every 50th collected result and at
\* no other time; it gives the number processed, the total, and the number
\* of rate-limit hits, which is the number of futures collected so far with
\* status rate_limited; and the loop holds nothing a worker waits for: a
\* worker with an unfinished task can finish it whatever the loop has done.
C30_ProgressEveryFiftieth ==
  /\ Len(p_log) = p_count \div 50
  /\ \A k \in 1..Len(p_log) :
       /\ p_log[k].processed = 50 * k
       /\ p_log[k].total = Len(p_outcomes)
       /\ p_log[k].hits = Cardinality(LimitedAmong(50 * k))
  /\ p_hits = Cardinality(LimitedAmong(p_count))
  /\ p_finished < Len(p_outcomes) => ENABLED ProgressWorkerFinish

\* Two progress lines were printed, with different numbers of hits, the
\* second while a worker was still running.
C30_Witness ==
  /\ Len(p_log) = 2
  /\ p_log[1].hits = 1
  /\ p_log[2].hits = 2
  /\ p_count = 100
  /\ p_finished = 100
  /\ Len(p_outcomes) = 101

-----------------------------------------------------------------------------
(* Properties of the thread pool (checked under SpecPool)                  *)

\* C32: at every moment of the dispatch phase at most as many resolver calls
\* are in flight as the pool has threads, 10 with the secondary token and 5
\* without; and every task is resolved by exactly one call: none before a
\* thread takes the task up, one from then on.
C32_PoolBound ==
  /\ q_max_workers \in {5, 10}
  /\ Cardinality({i \in 1..Len(q_futures) : q_futures[i].st = "running"}) <= q_max_workers
  /\ \A i \in 1..Len(q_futures) :
       q_futures[i].calls = IF q_futures[i].st = "pending" THEN 0 ELSE 1

\* The pool of 5 is full: five calls are in flight and a sixth task waits
\* in the queue.
C32_Witness ==
  /\ q_max_workers = 5
  /\ Len(q_futures) = 6
  /\ \A i \in 1..5 : q_futures[i].st = "running"
  /\ q_futures[6].st = "pending"

-----------------------------------------------------------------------------
(* Properties of the pagination loop (checked under SpecPaging)            *)

\* C34: with --stop-after N, N >= 1, and the team in place, the loop fetches only while it holds
\* fewer than N issues, so no page is fetched once N are there; what it holds
\* is a prefix of the team's issues in fetch order, and it ends with exactly
\* the first N of them, or with all of them when the team has fewer than N.
C34_StopAfterKeepsFirstN ==
  (args.stop_after >= 1 /\ remote.team_exists) =>
    /\ IsPrefix(all_issues, remote.issues)
    /\ pc = "fetch" => Len(all_issues) < args.stop_after
    /\ fetches >= 1 => (fetches - 1) * PageSize < args.stop_after
    /\ pc = "fetch" => Len(all_issues) = fetches * PageSize
    /\ pc = "extract" =>
         /\ all_issues = SubSeq(remote.issues, 1, Min(args.stop_after, Len(remote.issues)))
         /\ linear_calls.page = fetches

\* The cap of 3 was reached on the second page of a team of 5: four issues
\* were fetched and the first three kept.
C34_Witness ==
  /\ pc = "extract"
  /\ remote.team_exists
  /\ args.stop_after = 3
  /\ Len(remote.issues) = 5
  /\ fetches = 2
  /\ Len(all_issues) = 3

-----------------------------------------------------------------------------
(* Properties of the token warning (checked under SpecWarn)                *)

\* C38: on a GitHubAPIRest object without a token the warning is shown
\* exactly once, at the first call of get_issue_details, however many calls
\* are made and also when several threads make them at once; with a token
\* it is never shown.
C38_WarningShownOnce ==
  /\ w_printed <= 1
  /\ w_token => w_printed = 0
  /\ (~w_token /\ \E t \in 1..Len(w_threads) : w_threads[t] = "loop") => w_printed = 1

\* The pagination loop is over: main has gone on to phase 1 or has returned.
PagingOver == pc \in {"extract", "done"}

\* C39: the pagination loop terminates whenever the tracker returns a finite
\* chain of pages: every pass that stays in the loop moves the cursor
\* forward within the team's issues, and a run that is in the loop
\* eventually leaves it. When the team does not exist the fetch returns no
\* issues and no cursor, and the loop ends at that fetch; if that is the
\* first fetch it ends with no issues at all.
C39_PaginationTerminates ==
  /\ [][(pc = "fetch" /\ pc' = "fetch") =>
          \/ /\ fetches' = fetches + 1
             /\ cursor < cursor'
             /\ cursor' < Len(remote.issues)
          \/ UNCHANGED <<pc, all_issues, cursor, fetches>>]_vars
  /\ [][(pc = "fetch" /\ ~remote.team_exists /\ fetches' = fetches + 1) =>
          /\ pc' = "extract"
          /\ all_issues' = all_issues
          /\ fetches = 0 => all_issues' = <<>>]_vars
  /\ (pc = "fetch") ~> PagingOver

\* The loop has ended on the terminal page of a chain of three.
C39_Witness ==
  /\ pc = "extract"
  /\ args.stop_after = 0
  /\ remote.team_exists
  /\ fetches = 3
  /\ Len(all_issues) = 5

-----------------------------------------------------------------------------
(* Properties of the resolver (checked under SpecResolver)                 *)

\* The transport attempts the call has made.
Attempts == Len(r_resps)

AllResponsesIn(kinds) == \A i \in 1..Len(r_resps) : r_resps[i] \in kinds

BackoffBase == IF r_variant = "cli" THEN CliBackoffBase ELSE RestBackoffBase

\* C3: a call of get_issue_details never makes more transport attempts than
\* its max_retries argument, whatever the responses are.
C3_AttemptsBounded == Attempts <= r_max

C3_Witness ==
  /\ r_pc = "returned"
  /\ r_max >= 2
  /\ Attempts = r_max

\* C4: a not-found response ends the call at the attempt that observes it:
\* it is the last response, the call has returned (None, 'not_found'), no
\* sleep follows it (one sleep per earlier attempt only), and when the first
\* response is not-found the call made exactly one attempt.
C4_NotFoundTerminal ==
  \A i \in 1..Len(r_resps) :
    r_resps[i] = "not_found" =>
      /\ i = Len(r_resps)
      /\ r_pc = "returned"
      /\ r_ret = [details |-> NoDetails, outcome |-> "not_found"]
      /\ Len(r_sleeps) = i - 1
      /\ (r_resps[1] = "not_found" => Attempts = 1)

C4_Witness ==
  /\ r_pc = "returned"
  /\ r_ret.outcome = "not_found"
  /\ Attempts = 2
  /\ r_resps[1] = "rate_limit"

\* C5: while every response is a rate limit, the call goes on to exactly
\* max_retries attempts, the i-th sleep is base * i (so the waits increase
\* strictly), and it returns only after the max_retries-th attempt, with
\* (None, 'rate_limited') and max_retries - 1 sleeps.
C5_AlwaysRateLimited ==
  (Attempts >= 1 /\ AllResponsesIn({"rate_limit"})) =>
    /\ r_pc # "raised"
    /\ \A i \in 1..Len(r_sleeps) : r_sleeps[i] = BackoffBase * i
    /\ \A i \in 1..(Len(r_sleeps) - 1) : r_sleeps[i] < r_sleeps[i + 1]
    /\ (r_pc = "loop" => Attempts < r_max /\ Len(r_sleeps) = Attempts)
    /\ (r_pc = "returned" =>
          /\ Attempts = r_max
          /\ Len(r_sleeps) = r_max - 1
          /\ r_ret = [details |-> NoDetails, outcome |-> "rate_limited"])

C5_Witness ==
  /\ r_pc = "returned"
  /\ r_max = 3
  /\ AllResponsesIn({"rate_limit"})
  /\ r_ret.outcome = "rate_limited"
  /\ Len(r_sleeps) = 2

\* The transport errors that are neither not-found nor rate-limit.
OtherErrors == {"bad_json", "other", "timeout", "exception"}

\* C6: while every response is another transport error (any exception
\* included), no exception escapes the call, every sleep is the same fixed
\* delay, and the call returns only after the max_retries-th attempt, with
\* (None, 'error').
C6_OtherErrorsContained ==
  (Attempts >= 1 /\ AllResponsesIn(OtherErrors)) =>
    /\ r_pc # "raised"
    /\ \A i \in 1..Len(r_sleeps) : r_sleeps[i] = OtherErrorDelay
    /\ (r_pc = "loop" => Attempts < r_max /\ Len(r_sleeps) = Attempts)
    /\ (r_pc = "returned" =>
          /\ Attempts = r_max
          /\ Len(r_sleeps) = r_max - 1
          /\ r_ret = [details |-> NoDetails, outcome |-> "error"])

Outcomes == {"success", "not_found", "rate_limited", "error"}

\* C7: every return of the resolver is a pair (details, outcome) with the
\* outcome one of the four, and the details present exactly when the outcome
\* is success.
C7_DetailsIffSuccess ==
  r_pc = "returned" =>
    /\ r_ret.outcome \in Outcomes
    /\ (r_ret.details.present <=> r_ret.outcome = "success")

C7_Witness ==
  /\ r_pc = "returned"
  /\ r_ret.outcome = "success"
  /\ r_ret.details.present
  /\ r_ret.details.number = 0
  /\ Attempts = 2

\* The responses that end a call whenever they come.
Decisive == {"ok", "not_found"}

\* C35: for any sequence of responses the outcome is decided by the last
\* attempt made: 'rate_limited' is returned only when the max_retries-th
\* attempt was rate-limited, 'error' only when the max_retries-th attempt
\* met another transport error, and a success or a not-found at any attempt
\* ends the call at that attempt with 'success' or 'not_found', whatever
\* failed before.
C35_LastAttemptDecides ==
  /\ r_pc = "returned" =>
       /\ Attempts >= 1
       /\ r_ret.outcome = "rate_limited" =>
            Attempts = r_max /\ r_resps[Attempts] = "rate_limit"
       /\ r_ret.outcome = "error" =>
            Attempts = r_max /\ r_resps[Attempts] \in OtherErrors
       /\ r_ret.outcome = "success" => r_resps[Attempts] = "ok"
       /\ r_ret.outcome = "not_found" => r_resps[Attempts] = "not_found"
  /\ \A i \in 1..Len(r_resps) :
       r_resps[i] \in Decisive =>
         /\ i = Attempts
         /\ r_pc = "returned"
         /\ r_ret.outcome = IF r_resps[i] = "ok" THEN "success" ELSE "not_found"
         /\ \A j \in 1..(i - 1) : r_resps[j] \notin Decisive

\* A call that met a rate limit, then a timeout, then a rate limit again,
\* and returned 'rate_limited'.
C35_Witness ==
  /\ r_pc = "returned"
  /\ r_max = 3
  /\ r_resps = <<"rate_limit", "timeout", "rate_limit">>
  /\ r_ret.outcome = "rate_limited"

\* C36: the resolver sleeps only between attempts: it has not slept before
\* its first attempt, while it is in the loop it has slept once after each
\* attempt made, and when it has ended after k attempts, by a return or by
\* an exception, it has slept exactly k - 1 times: not after the attempt
\* that decided the outcome, the exhausted last one included.
C36_SleepsOnlyBetweenAttempts ==
  /\ Attempts = 0 => r_sleeps = <<>>
  /\ r_pc = "loop" => Len(r_sleeps) = Attempts
  /\ r_pc \in {"returned", "raised"} =>
       /\ Attempts >= 1
       /\ Len(r_sleeps) = Attempts - 1
  /\ \A i \in 1..Len(r_sleeps) : r_resps[i] \notin Decisive

\* Three attempts that all failed: two sleeps, none after the third.
C36_Witness ==
  /\ r_pc = "returned"
  /\ r_max = 3
  /\ Attempts = 3
  /\ r_ret.outcome = "error"
  /\ Len(r_sleeps) = 2
  /\ r_resps[1] = "rate_limit"

====
